---- MODULE Spec2Model ----
(***************************************************************************)
(* Crop-geometry engine of the image-cropping component                    *)
(* (src/src/components/Crop/utils.tsx and mathExtension.tsx).              *)
(*                                                                         *)
(* Every JavaScript `number` is modelled as an exact rational              *)
(* [n |-> numerator, d |-> denominator] in lowest terms with d > 0, so     *)
(* the arithmetic is the real-number arithmetic the code approximates.     *)
(* An angle (radians in the code) is modelled by the pair [cos, sin] of    *)
(* its rotation, which is all DOMMatrix.rotate ever uses of it; the        *)
(* angles drawn are the rational points of the unit circle listed in       *)
(* Angles (quarter turns and 3-4-5 rotations).                             *)
(*                                                                         *)
(* The code computes in doubles. A double is the exact number as long as   *)
(* the numbers are binary fractions; the numbers of a rotated crop, and    *)
(* those computed through a number that is no binary fraction (an aspect   *)
(* of 4/3, a corner at 16/5), are rounded: 1e-16 off, and as much as 1e-7  *)
(* where a browser's DOMMatrix has computed them.                          *)
(* A test of the code (isWithin, shiftRequired, slope.x === 0, ...) that   *)
(* compares a rounded number with one it equals exactly is decided by the  *)
(* rounding, not by the geometry: cos(pi/2) is 6.1e-17 in doubles, and a   *)
(* corner that is on x = 0 here is at +-1e-16 there. The calls of fitPoint *)
(* and fitCrop are followed on the inputs for which no test is decided by  *)
(* rounding (section Doubles), and so is the test of the refit effect; on  *)
(* these the code takes the branches taken here and returns the numbers    *)
(* computed here, to within rounding. In the component (Crop.tsx) the      *)
(* points given to fitPoint and fitCrop come out of the canvas transform;  *)
(* a test decided by rounding there moves a corner by the rounding only,   *)
(* and cropState and the transform are the numbers computed here to within *)
(* rounding on every step followed.                                        *)
(***************************************************************************)
EXTENDS Integers, Sequences, FiniteSets, TLC

VARIABLES
    pc,         \* position of the call being modelled
    image,      \* Dimension: the image the crop is fitted to
    aspect,     \* number | undefined: [defined, value]
    crop,       \* CropState: the argument c of fitCrop
    transform,  \* Transformations.SCALE | Transformations.TRANSLATE
    cPrime,     \* the local cPrime of the running fitCrop call, its result at the end
    path,       \* which branch of fitCrop the current call took
    calls,      \* number of fitCrop calls started on this input
    mode,       \* the transform argument of the running fitCrop activation
    nested,     \* number of nested fitCrop calls the outer call has made
    fixed,      \* the corners passed to fitPoint since the outer call, in order
    p,          \* Point: the corner to fit (fitPoint), the point of shiftRequired
    o,          \* Point: the opposite corner (fitPoint)
    angle,      \* angle argument of fitPoint
    diagonal,   \* 1 | -1
    fitted,     \* [pPrime, o, crop] computed by fitPoint(p, o, ...)
    shift,      \* {dx, dy} returned by shiftRequired(p, image)
    matrix,     \* DOMMatrix: canvasState.transform
    canvas,     \* Dimension: canvasState.canvas, the viewport
    mapped,     \* Point returned by imageToCanvas or canvasToImage
    corners,    \* {a, b, c, d} returned by getCorners or getCanvasCorners
    refits,     \* number of refits the refit effect has requested in a row
    values,     \* the arguments of maxMagnitude or approxEqual
    result,     \* what maxMagnitude or approxEqual returned
    loaded,     \* canvasState.image is defined: the image has loaded
    sized,      \* canvasState.canvas is defined: the canvas has been measured
    shown,      \* the corners state of the component is defined
    finite,     \* the entries of canvasState.transform are finite numbers
    observer,   \* the closure of the ResizeObserver callback: the cropState it
                \* holds and the render whose effect has created it (1 or 2)
    events,     \* number of events the component has handled since Init
    last        \* the handler of the component that ran last

vars == <<pc, image, aspect, crop, transform, cPrime, path, calls, mode, nested,
          fixed, p, o, angle, diagonal, fitted, shift,
          matrix, canvas, mapped, corners, refits,
          values, result, loaded, sized, shown, finite, observer, events, last>>

\* the state of the view: the canvas transform and what is computed with it
viewVars == <<matrix, canvas, mapped, corners, refits>>

\* the arguments and the result of a call of mathExtension.tsx
mathVars == <<values, result>>

\* the rest of the state of the Crop component
cropVars == <<loaded, sized, shown, finite, observer, events, last>>

----------------------------------------------------------------------------
(* Exact rational arithmetic standing for JavaScript numbers.               *)

\* the only element of a one-element set: Only({e}) is e, evaluated once
Only(S) == CHOOSE x \in S : TRUE

AbsInt(i) == IF i < 0 THEN -i ELSE i

RECURSIVE GCD(_, _)
GCD(a, b) == IF b = 0 THEN a ELSE GCD(b, a % b)

\* the number n/d (d # 0) in lowest terms
Q(n, d) ==
    LET g == GCD(AbsInt(n), AbsInt(d))
        s == IF d < 0 THEN -1 ELSE 1
    IN  [n |-> (s * n) \div g, d |-> (s * d) \div g]

Z(i) == [n |-> i, d |-> 1]

Zero == Z(0)
One == Z(1)
Two == Z(2)

\* a + b over the least common denominator
Plus(a, b) ==
    LET g == GCD(a.d, b.d)
    IN  Q(a.n * (b.d \div g) + b.n * (a.d \div g), (a.d \div g) * b.d)
Neg(a) == [n |-> -a.n, d |-> a.d]
Minus(a, b) == Plus(a, Neg(b))
\* a * b, cancelling across before multiplying
Times(a, b) ==
    LET g1 == GCD(AbsInt(a.n), b.d)
        g2 == GCD(AbsInt(b.n), a.d)
    IN  [n |-> (a.n \div g1) * (b.n \div g2), d |-> (a.d \div g2) * (b.d \div g1)]
\* 1 / b for b # 0
Recip(b) == IF b.n < 0 THEN [n |-> -b.d, d |-> -b.n] ELSE [n |-> b.d, d |-> b.n]
\* a / b for b # 0 (the quotients the code forms with b = 0 are never read)
Over(a, b) == Times(a, Recip(b))
Half(a) == Over(a, Two)

Less(a, b) ==
    LET g == GCD(a.d, b.d) IN a.n * (b.d \div g) < b.n * (a.d \div g)
Leq(a, b) == ~Less(b, a)
IsZero(a) == a.n = 0

\* Math.abs, Math.min, Math.max
MathAbs(a) == [n |-> AbsInt(a.n), d |-> a.d]
MathMin(a, b) == IF Less(b, a) THEN b ELSE a
MathMax(a, b) == IF Less(a, b) THEN b ELSE a

Point(x, y) == [x |-> x, y |-> y]

----------------------------------------------------------------------------
(* mathExtension.tsx                                                        *)

\* clamp(a, min, max): Math.min(Math.max(a, min), max)
clamp(a, min, max) == MathMin(MathMax(a, min), max)

\* midpoint(a, b)
midpoint(a, b) == Point(Half(Plus(a.x, b.x)), Half(Plus(a.y, b.y)))

\* signsMatch without its zero case: 0 counts as positive
signsMatchStrict(a, b) == Less(a, Zero) = Less(b, Zero)

\* signsMatch(a, b): 0 matches either sign
signsMatch(a, b) ==
    IF IsZero(a) \/ IsZero(b) THEN TRUE
    ELSE Less(a, Zero) = Less(b, Zero)

\* sign(a): -1, 0 or 1
sign(a) == IF IsZero(a) THEN 0 ELSE IF Less(a, Zero) THEN -1 ELSE 1

\* the reducer of maxMagnitude keeping the smaller magnitude instead
maxMagnitudeLeast(a, b) == IF Less(MathAbs(a), MathAbs(b)) THEN a ELSE b

\* the reducer of maxMagnitude keeping a on a tie: |a| >= |b| ? a : b
maxMagnitudeFirst(a, b) == IF Less(MathAbs(a), MathAbs(b)) THEN b ELSE a

\* the reducer of maxMagnitude: (a, b) => |a| > |b| ? a : b
maxMagnitude2(a, b) == IF Less(MathAbs(b), MathAbs(a)) THEN a ELSE b

\* maxMagnitude(...values) for the two-argument calls of utils.tsx
maxMagnitude(a, b) == maxMagnitude2(a, b)

\* values.reduce(reducer) from its i-th element on: a left fold whose first
\* accumulator is values[0] (the array is not empty)
RECURSIVE reduce(_, _, _)
reduce(vs, i, acc) ==
    IF i > Len(vs) THEN acc ELSE reduce(vs, i + 1, maxMagnitude2(acc, vs[i]))

\* maxMagnitude(...values)
maxMagnitudeAll(vs) == reduce(vs, 2, vs[1])

\* Number.EPSILON is 2^-EpsilonBits
EpsilonBits == 52

\* n / 2^k rounded down, and n = 2^k, for n >= 0
RECURSIVE Halved(_, _)
Halved(n, k) == IF k = 0 THEN n ELSE Halved(n \div 2, k - 1)
RECURSIVE IsPowerOfTwo(_, _)
IsPowerOfTwo(n, k) ==
    IF k = 0 THEN n = 1 ELSE n % 2 = 0 /\ IsPowerOfTwo(n \div 2, k - 1)

\* x < m * Number.EPSILON for x >= 0: never when m <= 0, always when x = 0 < m,
\* and otherwise when m / x > 2^EpsilonBits
lessThanEpsilonTimes(x, m) ==
    IF ~Less(Zero, m) THEN FALSE
    ELSE IF IsZero(x) THEN TRUE
    ELSE LET q == Over(m, x)
         IN  /\ Halved(q.n \div q.d, EpsilonBits) >= 1
             /\ ~(q.d = 1 /\ IsPowerOfTwo(q.n, EpsilonBits))

\* approxEqual with the bound taken in absolute value
approxEqualAbs(a, b) ==
    lessThanEpsilonTimes(MathAbs(Minus(a, b)), MathAbs(maxMagnitude(a, b)))

\* approxEqual(a, b): Math.abs(a - b) < maxMagnitude(a, b) * Number.EPSILON
approxEqual(a, b) ==
    lessThanEpsilonTimes(MathAbs(Minus(a, b)), maxMagnitude(a, b))

----------------------------------------------------------------------------
(* DOMMatrix: a rotation is the pair [cos, sin] of its angle; transformPoint *)
(* of rotate(angle) maps (x, y) to (x cos - y sin, x sin + y cos).          *)

Rot(cos, sin) == [cos |-> cos, sin |-> sin]

\* new DOMMatrix().rotate(radiansToDegrees(angle)).transformPoint(pt)
Rotate(a, pt) ==
    Point(Minus(Times(pt.x, a.cos), Times(pt.y, a.sin)),
          Plus(Times(pt.x, a.sin), Times(pt.y, a.cos)))

\* the rotation by -angle
Inverse(a) == Rot(a.cos, Neg(a.sin))

\* a 2D DOMMatrix: transformPoint maps (x, y) to (a x + c y + e, b x + d y + f)
DOMMatrix(a, b, c, d, e, f) == [a |-> a, b |-> b, c |-> c, d |-> d, e |-> e, f |-> f]

\* new DOMMatrix()
Identity == DOMMatrix(One, Zero, Zero, One, Zero, Zero)

\* the product m * n: n is applied to the point first
Multiply(m, n) ==
    DOMMatrix(Plus(Times(m.a, n.a), Times(m.c, n.b)),
              Plus(Times(m.b, n.a), Times(m.d, n.b)),
              Plus(Times(m.a, n.c), Times(m.c, n.d)),
              Plus(Times(m.b, n.c), Times(m.d, n.d)),
              Plus(Plus(Times(m.a, n.e), Times(m.c, n.f)), m.e),
              Plus(Plus(Times(m.b, n.e), Times(m.d, n.f)), m.f))

\* m.translate(tx, ty), m.rotate(degrees) and m.scale(s, s, 1, ox, oy): each
\* post-multiplies m
translate(m, tx, ty) == Multiply(m, DOMMatrix(One, Zero, Zero, One, tx, ty))
rotate(m, r) == Multiply(m, DOMMatrix(r.cos, r.sin, Neg(r.sin), r.cos, Zero, Zero))
scale(m, s, ox, oy) ==
    Multiply(m, DOMMatrix(s, Zero, Zero, s, Minus(ox, Times(s, ox)), Minus(oy, Times(s, oy))))

\* m.transformPoint(pt)
transformPoint(m, pt) ==
    Point(Plus(Plus(Times(m.a, pt.x), Times(m.c, pt.y)), m.e),
          Plus(Plus(Times(m.b, pt.x), Times(m.d, pt.y)), m.f))

determinant(m) == Minus(Times(m.a, m.d), Times(m.b, m.c))

\* an inverse that undoes the translation by its opposite only
inverseShifted(m) ==
    DOMMatrix(Over(m.d, determinant(m)),
              Over(Neg(m.b), determinant(m)),
              Over(Neg(m.c), determinant(m)),
              Over(m.a, determinant(m)),
              Neg(m.e),
              Neg(m.f))

\* m.inverse() of an invertible m
inverse(m) ==
    DOMMatrix(Over(m.d, determinant(m)),
              Over(Neg(m.b), determinant(m)),
              Over(Neg(m.c), determinant(m)),
              Over(m.a, determinant(m)),
              Minus(Times(Over(m.c, determinant(m)), m.f), Times(Over(m.d, determinant(m)), m.e)),
              Minus(Times(Over(m.b, determinant(m)), m.e), Times(Over(m.a, determinant(m)), m.f)))

----------------------------------------------------------------------------
(* utils.tsx                                                                *)

\* aspect: number | undefined
undefined == [defined |-> FALSE, value |-> Zero]
Fixed(a) == [defined |-> TRUE, value |-> a]

Dimension(w, h) == [width |-> w, height |-> h]

CropState(x, y, w, h, a) ==
    [x |-> x, y |-> y, width |-> w, height |-> h, angle |-> a]

\* isWithin(p, d): p.x > 0 && p.x <= d.width - 1 && p.y > 0 && p.y <= d.height - 1
isWithin(pt, d) ==
    /\ Less(Zero, pt.x)
    /\ Leq(pt.x, Minus(d.width, One))
    /\ Less(Zero, pt.y)
    /\ Leq(pt.y, Minus(d.height, One))

\* getCorners(crop): translate(crop.x, crop.y).rotate(angle) applied to the
\* local corners (-w/2,-h/2), (w/2,-h/2), (w/2,h/2), (-w/2,h/2)
Local(c, sx, sy) ==
    Point(Times(Z(sx), Half(c.width)), Times(Z(sy), Half(c.height)))

Place(c, pt) ==
    Only({Point(Plus(r.x, c.x), Plus(r.y, c.y)) : r \in {Rotate(c.angle, pt)}})

\* getCorners naming the corners a, c, b, d round the rectangle
getCornersCrossed(c) ==
    [a |-> Place(c, Local(c, -1, -1)),
     c |-> Place(c, Local(c, 1, -1)),
     b |-> Place(c, Local(c, 1, 1)),
     d |-> Place(c, Local(c, -1, 1))]

getCorners(c) ==
    [a |-> Place(c, Local(c, -1, -1)),
     b |-> Place(c, Local(c, 1, -1)),
     c |-> Place(c, Local(c, 1, 1)),
     d |-> Place(c, Local(c, -1, 1))]

\* canvasToImage(p, transform): transform.inverse().transformPoint(p)
canvasToImage(pt, t) == transformPoint(inverse(t), pt)

\* imageToCanvas(p, transform): transform.transformPoint(p)
imageToCanvas(pt, t) == transformPoint(t, pt)

\* getCanvasCorners(crop, transform)
getCanvasCorners(c, t) ==
    [a |-> imageToCanvas(getCorners(c).a, t),
     b |-> imageToCanvas(getCorners(c).b, t),
     c |-> imageToCanvas(getCorners(c).c, t),
     d |-> imageToCanvas(getCorners(c).d, t)]

\* export const CROP_BUFFER = 0.05
CROP_BUFFER == Q(1, 20)

\* Math.min(windowSize.width / c.width, windowSize.height / c.height)
\* (utils.tsx 112): a quotient by 0 is Infinity, and the minimum is the other
\* quotient; the minimum is a number unless the width and the height are both 0
fitRatio(c, windowSize) ==
    IF IsZero(c.width) THEN Over(windowSize.height, c.height)
    ELSE IF IsZero(c.height) THEN Over(windowSize.width, c.width)
    ELSE MathMin(Over(windowSize.width, c.width), Over(windowSize.height, c.height))

\* transformToFit(c, windowSize)
transformToFit(c, windowSize) ==
    LET scaleBy == Times(fitRatio(c, windowSize),
                         Minus(Minus(One, Times(CROP_BUFFER, Two)), Q(1, 10000)))
        centerX == Half(windowSize.width)
        centerY == Half(windowSize.height)
        correctionVector == Rotate(c.angle, Point(centerX, centerY))
        scalePos == Rotate(c.angle, Point(c.x, c.y))
    IN  scale(translate(rotate(translate(Identity, Neg(c.x), Neg(c.y)), Inverse(c.angle)),
                        correctionVector.x, correctionVector.y),
              scaleBy, scalePos.x, scalePos.y)

\* getInverseCorner(p, center, angle): rotate(-angle).translate(-center)
getInverseCorner(pt, center, a) ==
    Rotate(Inverse(a), Point(Minus(pt.x, center.x), Minus(pt.y, center.y)))

\* nearestPointInBounds clamping to [0, dim] instead of [0, dim - 1]
nearestPointInDimension(pt, d) ==
    Point(clamp(pt.x, Zero, d.width), clamp(pt.y, Zero, d.height))

\* nearestPointInBounds(p, d)
nearestPointInBounds(pt, d) ==
    Point(clamp(pt.x, Zero, Minus(d.width, One)),
          clamp(pt.y, Zero, Minus(d.height, One)))

\* one axis of shiftRequired: v >= dim ? dim - v - 1 : (v < 0 ? -v : 0)
shiftAxis(v, dim) ==
    IF Leq(dim, v) THEN Minus(Minus(dim, v), One)
    ELSE IF Less(v, Zero) THEN Neg(v)
    ELSE Zero

\* shiftRequired(p, image)
shiftRequired(pt, img) ==
    [dx |-> shiftAxis(pt.x, img.width), dy |-> shiftAxis(pt.y, img.height)]

\* setCorner with the two extents exchanged
setCornerSwapped(pPrime, opp, a) ==
    LET center == midpoint(pPrime, opp)
        pTemp == getInverseCorner(pPrime, center, a)
    IN  CropState(center.x, center.y,
                  MathAbs(Times(pTemp.y, Two)), MathAbs(Times(pTemp.x, Two)), a)

\* setCorner returning a level crop: angle 0 in place of the angle passed in
setCornerLevel(pPrime, opp, a) ==
    LET center == midpoint(pPrime, opp)
        pTemp == getInverseCorner(pPrime, center, a)
    IN  CropState(center.x, center.y,
                  MathAbs(Times(pTemp.x, Two)), MathAbs(Times(pTemp.y, Two)),
                  Rot(One, Zero))

\* setCorner(pPrime, o, angle)
setCorner(pPrime, opp, a) ==
    LET center == midpoint(pPrime, opp)
        pTemp == getInverseCorner(pPrime, center, a)
    IN  CropState(center.x, center.y,
                  MathAbs(Times(pTemp.x, Two)), MathAbs(Times(pTemp.y, Two)), a)

----------------------------------------------------------------------------
(* fitPoint (utils.tsx 178-247)                                             *)

\* the shift of lines 181-192 taken whenever signsMatch(pShift, oShift)
shiftTogetherLoose(pShift, oShift) ==
    IF signsMatch(pShift, oShift) THEN maxMagnitude(pShift, oShift) ELSE Zero

\* lines 181-192: on an axis where sign(pShift) === sign(oShift), p and o are
\* both moved by maxMagnitude(pShift, oShift)
shiftTogether(pShift, oShift) ==
    IF sign(pShift) = sign(oShift) THEN maxMagnitude(pShift, oShift) ELSE Zero

shiftBoth(pt, opp, img) ==
    Only({Only({[p |-> Point(Plus(pt.x, mx), Plus(pt.y, my)),
                 o |-> Point(Plus(opp.x, mx), Plus(opp.y, my))]
                : mx \in {shiftTogether(pShift.dx, oShift.dx)},
                  my \in {shiftTogether(pShift.dy, oShift.dy)}})
          : pShift \in {shiftRequired(pt, img)}, oShift \in {shiftRequired(opp, img)}})

\* line 201: rotate(angle).transformPoint({x: aspect, y: diagonal})
slopeOf(asp, a, diag) == Rotate(a, Point(asp, Z(diag)))

\* the domain of lines 202-235 with the bounds of quadrant 1 in every quadrant
domainFirstQuadrant(opp, img, slope) ==
    LET t1x == Over(Neg(opp.x), slope.x)
        t2x == Over(Minus(Minus(img.width, One), opp.x), slope.x)
        t1y == Over(Neg(opp.y), slope.y)
        t2y == Over(Minus(Minus(img.height, One), opp.y), slope.y)
    IN  IF IsZero(slope.x) THEN [lower |-> t1y, upper |-> t2y]
        ELSE IF IsZero(slope.y) THEN [lower |-> t1x, upper |-> t2x]
        ELSE [lower |-> MathMax(t1x, t1y), upper |-> MathMin(t2x, t2y)]

\* lines 202-235: the domain [lower, upper] of the parametric line o + t*slope
domain(opp, img, slope) ==
    LET t1x == Over(Neg(opp.x), slope.x)
        t2x == Over(Minus(Minus(img.width, One), opp.x), slope.x)
        t1y == Over(Neg(opp.y), slope.y)
        t2y == Over(Minus(Minus(img.height, One), opp.y), slope.y)
    IN  IF IsZero(slope.x) THEN [lower |-> t1y, upper |-> t2y]
        ELSE IF IsZero(slope.y) THEN [lower |-> t1x, upper |-> t2x]
        ELSE IF Less(Zero, slope.x) /\ Less(Zero, slope.y)
            THEN [lower |-> MathMax(t1x, t1y), upper |-> MathMin(t2x, t2y)]
        ELSE IF Less(slope.x, Zero) /\ Less(Zero, slope.y)
            THEN [lower |-> MathMax(t1y, t2x), upper |-> MathMin(t2y, t1x)]
        ELSE IF Less(slope.x, Zero) /\ Less(slope.y, Zero)
            THEN [lower |-> MathMax(t2y, t2x), upper |-> MathMin(t1y, t1x)]
        ELSE [lower |-> MathMax(t2y, t1x), upper |-> MathMin(t1y, t2x)]

\* line 239: the parameter of the point of the line closest to p
closest(pt, opp, slope) ==
    Over(Plus(Times(slope.y, Minus(pt.y, opp.y)), Times(slope.x, Minus(pt.x, opp.x))),
         Plus(Times(slope.y, slope.y), Times(slope.x, slope.x)))

\* lines 194-244: the new position pPrime of the (already shifted) point
newPosition(pt, opp, img, asp, a, diag) ==
    IF ~asp.defined THEN nearestPointInBounds(pt, img)
    ELSE Only({Only({Point(Plus(opp.x, Times(tFit, slope.x)), Plus(opp.y, Times(tFit, slope.y)))
                     : tFit \in {clamp(closest(pt, opp, slope),
                                       MathMin(dom.lower, dom.upper),
                                       MathMax(dom.lower, dom.upper))
                                 : dom \in {domain(opp, img, slope)}}})
               : slope \in {slopeOf(asp.value, a, diag)}})

\* fitPoint with its intermediate values: the shifted p and o, pPrime and the crop
fitPointSteps(pt, opp, img, asp, a, diag) ==
    Only({Only({[p |-> moved.p, pPrime |-> pPrime, o |-> moved.o,
                 crop |-> setCorner(pPrime, moved.o, a)]
                : pPrime \in {newPosition(moved.p, moved.o, img, asp, a, diag)}})
          : moved \in {shiftBoth(pt, opp, img)}})

\* fitPoint(p, o, image, aspect, angle, diagonal)
fitPoint(pt, opp, img, asp, a, diag) == fitPointSteps(pt, opp, img, asp, a, diag).crop

----------------------------------------------------------------------------
(* fitCrop (utils.tsx 272-335)                                              *)

SCALE == "SCALE"
TRANSLATE == "TRANSLATE"

\* the nested call made in TRANSLATE mode again
nestedCallSame(taken) == TRANSLATE

\* the transform argument of the nested fitCrop calls of lines 308, 315 and 329
nestedCall(taken) ==
    CASE taken = "scaleOriginal" -> SCALE
      [] taken = "scaleMoved" -> SCALE

\* the diagonal opposite of a corner and the diagonal sign passed for it
opposite(k) == CASE k = "a" -> "c" [] k = "b" -> "d" [] k = "c" -> "a" [] k = "d" -> "b"
diagonalOf(k) == IF k \in {"a", "c"} THEN 1 ELSE -1

\* one `if (!isWithin(points.k, image)) cPrime = fitPoint(...)` of lines 279-293;
\* points is getCorners(cur) and a0 is c.angle, the angle of the crop fitCrop
\* was called with
fixCorner(cur, points, k, img, asp, a0) ==
    IF ~isWithin(points[k], img)
    THEN fitPoint(points[k], points[opposite(k)], img, asp, a0, diagonalOf(k))
    ELSE cur

\* the loop of lines 301-318 from its i-th distance on, delta being (dx, dy):
\* fallback when a distance and delta disagree in sign on an axis
RECURSIVE accumulate(_, _, _, _)
accumulate(distances, i, dx, dy) ==
    IF i > Len(distances) THEN [fallback |-> FALSE, dx |-> dx, dy |-> dy]
    ELSE LET distance == distances[i]
             xOpposed == ~IsZero(dx) /\ ~signsMatch(dx, distance.dx)
             yOpposed == ~IsZero(dy) /\ ~signsMatch(dy, distance.dy)
             ndx == IF IsZero(dx) THEN distance.dx ELSE maxMagnitude(dx, distance.dx)
             ndy == IF IsZero(dy) THEN distance.dy ELSE maxMagnitude(dy, distance.dy)
         IN  IF xOpposed \/ yOpposed
             THEN [fallback |-> TRUE, dx |-> dx, dy |-> dy]
             ELSE accumulate(distances, i + 1, ndx, ndy)

\* the re-check of line 326 without its two tests against 0
movedOutAbove(pt, dx, dy, img) ==
    \/ Leq(img.width, Plus(pt.x, dx))
    \/ Leq(img.height, Plus(pt.y, dy))

\* line 326: a translated corner outside [0, width) x [0, height)
movedOut(pt, dx, dy, img) ==
    \/ Less(Plus(pt.x, dx), Zero)
    \/ Leq(img.width, Plus(pt.x, dx))
    \/ Less(Plus(pt.y, dy), Zero)
    \/ Leq(img.height, Plus(pt.y, dy))

\* lines 323-325: the crop moved by delta
translated(c, delta) == [c EXCEPT !.x = Plus(c.x, delta.dx), !.y = Plus(c.y, delta.dy)]

\* case TRANSLATE without the return of line 320: a zero delta goes on to the
\* copy of line 323 and the re-check
translateCropNoReturn(c, img) ==
    Only({Only({IF delta.fallback
                    THEN [crop |-> c, path |-> "scaleOriginal"]
                ELSE IF \E i \in 1..4 : movedOut(tempPoints[i], delta.dx, delta.dy, img)
                    THEN [crop |-> translated(c, delta), path |-> "scaleMoved"]
                ELSE [crop |-> translated(c, delta), path |-> "moved"]
                : delta \in {accumulate([i \in 1..4 |-> shiftRequired(tempPoints[i], img)],
                                        1, Zero, Zero)}})
          : tempPoints \in {<<points.a, points.b, points.c, points.d>>
                            : points \in {getCorners(c)}}})

\* case Transformations.TRANSLATE up to its return statement (lines 295-331):
\* the return taken and the crop returned, or handed to fitCrop(.., SCALE)
translateCrop(c, img) ==
    Only({Only({IF delta.fallback
                    THEN [crop |-> c, path |-> "scaleOriginal"]
                ELSE IF IsZero(delta.dx) /\ IsZero(delta.dy)
                    THEN [crop |-> c, path |-> "unchanged"]
                ELSE IF \E i \in 1..4 : movedOut(tempPoints[i], delta.dx, delta.dy, img)
                    THEN [crop |-> translated(c, delta), path |-> "scaleMoved"]
                ELSE [crop |-> translated(c, delta), path |-> "moved"]
                : delta \in {accumulate([i \in 1..4 |-> shiftRequired(tempPoints[i], img)],
                                        1, Zero, Zero)}})
          : tempPoints \in {<<points.a, points.b, points.c, points.d>>
                            : points \in {getCorners(c)}}})

\* case Transformations.SCALE (lines 276-294): the corners ks in turn, each
\* against the corners of the latest crop, with the angle a0 of the argument
RECURSIVE scaleCorners(_, _, _, _, _)
scaleCorners(cur, ks, img, asp, a0) ==
    IF ks = <<>> THEN cur
    ELSE Only({scaleCorners(next, Tail(ks), img, asp, a0)
               : next \in {fixCorner(cur, points, Head(ks), img, asp, a0)
                           : points \in {getCorners(cur)}}})

\* fitCrop(c, image, aspect, transform) as the value it returns: the corners
\* are fitted in SCALE mode, and in TRANSLATE mode when the shifts of the
\* corners disagree or the shifted crop leaves the image
fitCrop(c, img, asp, t) ==
    Only({IF t = SCALE \/ r.path \in {"scaleOriginal", "scaleMoved"}
          THEN scaleCorners(r.crop, <<"a", "b", "c", "d">>, img, asp, r.crop.angle)
          ELSE r.crop
          : r \in {IF t = SCALE THEN [crop |-> c0, path |-> "scale"]
                                ELSE translateCrop(c0, img) : c0 \in {c}}})

----------------------------------------------------------------------------
(* resetCrop (utils.tsx 345-367)                                            *)

\* resetCrop anchored at the image's far corner instead of its centre
resetCropUncentred(img, asp) ==
    IF ~asp.defined
    THEN CropState(img.width, img.height, img.width, img.height, Rot(One, Zero))
    ELSE LET imgAspect == Over(img.width, img.height)
             limitedByHeight == Less(asp.value, imgAspect)
             width == IF limitedByHeight THEN Times(img.height, asp.value) ELSE img.width
             height == IF limitedByHeight THEN img.height ELSE Over(img.width, asp.value)
         IN  CropState(img.width, img.height, width, height, Rot(One, Zero))

\* resetCrop with the comparison of the two ratios turned round
resetCropWrongLimit(img, asp) ==
    IF ~asp.defined
    THEN CropState(Half(img.width), Half(img.height), img.width, img.height, Rot(One, Zero))
    ELSE LET imgAspect == Over(img.width, img.height)
             limitedByHeight == Less(imgAspect, asp.value)
             width == IF limitedByHeight THEN Times(img.height, asp.value) ELSE img.width
             height == IF limitedByHeight THEN img.height ELSE Over(img.width, asp.value)
         IN  CropState(Half(img.width), Half(img.height), width, height, Rot(One, Zero))

resetCrop(img, asp) ==
    IF ~asp.defined
    THEN CropState(Half(img.width), Half(img.height), img.width, img.height, Rot(One, Zero))
    ELSE LET imgAspect == Over(img.width, img.height)
             limitedByHeight == Less(asp.value, imgAspect)
             width == IF limitedByHeight THEN Times(img.height, asp.value) ELSE img.width
             height == IF limitedByHeight THEN img.height ELSE Over(img.width, asp.value)
         IN  CropState(Half(img.width), Half(img.height), width, height, Rot(One, Zero))

----------------------------------------------------------------------------
(* The inputs the calls are made with                                       *)

MaxDim == 3      \* images are MaxDim x MaxDim and MaxDim x (MaxDim - 1) pixels
MaxSize == 3     \* crops are up to MaxSize wide and high
MaxNested == 2   \* nested fitCrop calls are followed up to MaxNested deep
MaxRefits == 3   \* the refit effect is followed for up to MaxRefits refits in a row
MaxDen == 4      \* a result is fitted again when its numbers have denominators up to MaxDen
MaxArgs == 3     \* maxMagnitude is called with up to MaxArgs arguments
MaxNum == 4      \* the numbers given to mathExtension are k/2 for |k| <= MaxNum
MaxEvents == 4   \* the component handles up to MaxEvents events
MaxRatio == 4    \* the rotation effect is followed for aspects n/d with n, d <= MaxRatio

Images == {Dimension(Z(MaxDim), Z(MaxDim)), Dimension(Z(MaxDim), Z(MaxDim - 1))}

Upright == Rot(One, Zero)

\* rotations by 0, 90 and 180 degrees and by atan(4/3)
Angles == {Upright, Rot(Zero, One), Rot(Neg(One), Zero), Rot(Q(3, 5), Q(4, 5))}

\* free aspect, 1:1, 2:1 and 4:3
Aspects == {undefined, Fixed(One), Fixed(Two), Fixed(Q(4, 3))}

Centers == {Z(k) : k \in 0 .. MaxDim}
Sizes == {Z(k) : k \in 1 .. MaxSize}

Crops == {CropState(x, y, w, h, a) : x \in Centers, y \in Centers,
                                     w \in Sizes, h \in Sizes, a \in Angles}

\* the points fitPoint is called with: up to one pixel outside the image
Coords == {Z(k) : k \in -1 .. MaxDim + 1}
Points == {Point(x, y) : x \in Coords, y \in Coords}

\* rotations by 0, 90 and 180 degrees, by atan(4/3), by atan(3/4) and by
\* atan(3/4) + 180 degrees
PointAngles == {Upright, Rot(Zero, One), Rot(Neg(One), Zero),
                Rot(Q(3, 5), Q(4, 5)), Rot(Q(4, 5), Q(3, 5)), Rot(Q(-4, 5), Q(-3, 5))}
PointAspects == {undefined, Fixed(One), Fixed(Q(4, 3))}
PointImage == Dimension(Z(MaxDim), Z(MaxDim - 1))

\* the points shiftRequired is called with: half pixels, up to two outside
HalfPoints == {Point(Q(i, 2), Q(j, 2)) : i, j \in -4 .. 2 * MaxDim + 4}

\* the images and aspects resetCrop is called with
ResetImages == {Dimension(Z(w), Z(h)) : w, h \in 2 .. MaxDim + 2}
ResetAspects == Aspects \cup {Fixed(Q(1, 2)), Fixed(Q(3, 4)), Fixed(Q(3, 2))}

\* the transforms points are projected with: shears, reflections, uneven
\* scales and translations, and a rotation by atan(4/3) about (1, 2)
Entries == [a |-> {One, Two, Q(-1, 2)}, b |-> {Zero, One}, c |-> {Zero, Neg(One), Q(1, 2)},
            d |-> {One, Neg(Two), Q(3, 5)}]
Offsets == {Point(Zero, Zero), Point(Z(MaxDim), Neg(Two)), Point(Q(1, 2), Z(MaxDim + 2))}
Matrices ==
    {DOMMatrix(a, b, c, d, t.x, t.y) :
        a \in Entries.a, b \in Entries.b, c \in Entries.c, d \in Entries.d, t \in Offsets}
    \cup {rotate(translate(Identity, One, Two), Rot(Q(3, 5), Q(4, 5)))}
Invertible == {m \in Matrices : ~IsZero(determinant(m))}

\* the crops getCorners is called with: any centre of Coords, any angle of
\* PointAngles
CornerCrops == {CropState(x, y, w, h, a) : x \in Coords, y \in Coords,
                                           w \in Sizes, h \in Sizes, a \in PointAngles}

\* the viewports the crop is shown in
Viewports == {Dimension(Z(MaxDim + 1), Z(MaxDim)), Dimension(Z(MaxDim), Z(MaxDim + 1))}

\* the numbers and the argument lists mathExtension is called with
Numbers == {Q(k, 2) : k \in -MaxNum .. MaxNum}
Arguments == UNION {[1 .. n -> Numbers] : n \in 1 .. MaxArgs}

NoPoint == Point(Zero, Zero)
NoCrop == CropState(Zero, Zero, Zero, Zero, Upright)
NoShift == [dx |-> Zero, dy |-> Zero]
NoCanvas == Dimension(Zero, Zero)
NoCorners == [a |-> NoPoint, b |-> NoPoint, c |-> NoPoint, d |-> NoPoint]
NoFit == [p |-> NoPoint, pPrime |-> NoPoint, o |-> NoPoint, crop |-> NoCrop]

----------------------------------------------------------------------------
(* Doubles: which calls compute in doubles what is computed here.           *)
(* A number is exact in doubles when it is a binary fraction and so is      *)
(* every number it was computed from. The numbers of a crop are exact when  *)
(* the crop is level (cos 1, sin 0), its fields are binary fractions, and   *)
(* the crop was given as such or fitPoint has computed it from exact        *)
(* numbers with no aspect or a binary one. Otherwise they are rounded (a    *)
(* crop {2, 1, 0, 0} fitted through 16/5 has a height of 4.4e-16), and a    *)
(* test that compares two numbers equal here is tied: the code decides it   *)
(* by the rounding error.                                                   *)

\* q is a binary fraction
Binary(q) == \E k \in 0 .. 30 : q.d = 2 ^ k

\* the numbers of c are exact in doubles; sound: the numbers they were
\* computed from are exact
exact(c, sound) ==
    /\ sound
    /\ c.angle = Upright
    /\ \A f \in {"x", "y", "width", "height"} : Binary(c[f])

\* fitPoint computes with the aspect without rounding it
exactAspect(asp) == ~asp.defined \/ Binary(asp.value)

\* isWithin (utils.tsx 40) compares p.x with 0 and width - 1, p.y with 0 and
\* height - 1
tiedWithin(pt, img) ==
    \/ pt.x \in {Zero, Minus(img.width, One)}
    \/ pt.y \in {Zero, Minus(img.height, One)}

\* shiftRequired (utils.tsx 158, 162) compares p.x with width and 0, p.y with
\* height and 0
tiedShift(pt, img) ==
    \/ pt.x \in {Zero, img.width}
    \/ pt.y \in {Zero, img.height}

\* the tests slope.x === 0 and slope.y === 0 (utils.tsx 211, 215) and the
\* signs of lines 219-231: the sine and the cosine of an angle that is not 0
\* are rounded, and a component of the slope that is 0 here is not 0 there
tiedSlope(asp, a, diag) ==
    /\ asp.defined
    /\ a # Upright
    /\ \E s \in {slopeOf(asp.value, a, diag)} : IsZero(s.x) \/ IsZero(s.y)

\* no test of fitPoint(p, o, ...) is tied; isExact: p and o are exact
decidedPoint(pt, opp, img, asp, a, diag, isExact) ==
    /\ isExact \/ (~tiedShift(pt, img) /\ ~tiedShift(opp, img))
    /\ ~tiedSlope(asp, a, diag)

\* no test of `if (!isWithin(points.k, image)) cPrime = fitPoint(...)` is tied
decidedCorner(points, k, img, asp, a0, isExact) ==
    /\ isExact \/ ~tiedWithin(points[k], img)
    /\ \/ isWithin(points[k], img)
       \/ decidedPoint(points[k], points[opposite(k)], img, asp, a0, diagonalOf(k), isExact)

\* what is known of a call: ok, no test of it is tied; sound, the numbers of
\* the crop it returns were computed from exact numbers
Known(ok, sound) == [ok |-> ok, sound |-> sound]

\* case SCALE (utils.tsx 276-294) on the corners ks, cur being cPrime
RECURSIVE knownCorners(_, _, _, _, _, _)
knownCorners(cur, ks, img, asp, a0, sound) ==
    IF ks = <<>> THEN Known(TRUE, sound)
    ELSE Only({IF ~decidedCorner(points, Head(ks), img, asp, a0, exact(cur, sound))
               THEN Known(FALSE, FALSE)
               ELSE Only({knownCorners(fit, Tail(ks), img, asp, a0,
                                       IF isWithin(points[Head(ks)], img) THEN sound
                                       ELSE exact(cur, sound) /\ exactAspect(asp))
                          : fit \in {fixCorner(cur, points, Head(ks), img, asp, a0)}})
               : points \in {getCorners(cur)}})

\* the re-check of line 326 compares point + delta with 0 and with the size;
\* the one corner delta was taken from lands on 0 by x + (-x), in doubles too
tiedMove(points, k, dx, dy, img) ==
    \/ Plus(points[k].x, dx) = img.width
    \/ Plus(points[k].y, dy) = img.height
    \/ /\ IsZero(Plus(points[k].x, dx))
       /\ \/ ~Less(points[k].x, Zero)
          \/ \E j \in DOMAIN points : j # k /\ points[j].x = points[k].x
    \/ /\ IsZero(Plus(points[k].y, dy))
       /\ \/ ~Less(points[k].y, Zero)
          \/ \E j \in DOMAIN points : j # k /\ points[j].y = points[k].y

\* no test of case TRANSLATE up to its return (utils.tsx 295-331) is tied;
\* r is what translateCrop(c, image) returns
decidedTranslate(c, r, img) ==
    \E points \in {getCorners(c)} :
        /\ \A k \in DOMAIN points : ~tiedShift(points[k], img)
        /\ r.path \in {"moved", "scaleMoved"} =>
               \A k \in DOMAIN points :
                   ~tiedMove(points, k, Minus(r.crop.x, c.x), Minus(r.crop.y, c.y), img)

\* fitCrop(c, image, aspect, transform), c being sound or not
known(c, img, asp, t, sound) ==
    Only({IF ~(t = SCALE \/ exact(c, sound) \/ decidedTranslate(c, r, img))
          THEN Known(FALSE, FALSE)
          ELSE IF r.path \in {"scale", "scaleOriginal", "scaleMoved"}
          THEN knownCorners(r.crop, <<"a", "b", "c", "d">>, img, asp, c.angle, sound)
          ELSE Known(TRUE, sound)
          : r \in {IF t = SCALE THEN [crop |-> c, path |-> "scale"]
                   ELSE translateCrop(c, img)}})

\* no test of fitCrop(c, image, aspect, transform) is tied: the call is
\* decided in doubles as it is here
decided(c, img, asp, t, sound) == known(c, img, asp, t, sound).ok

\* the numbers of the crop the first call is given are exact: they are
\* written out (Crops), or resetCrop has computed them with no aspect or a
\* binary one
given(c, asp) == c \in Crops \/ exactAspect(asp)

\* no test of the second call, fitCrop(cP, image, aspect, transform) with cP
\* returned by fitCrop(c, image, aspect, transform), is tied
decidedAgain(c, cP, img, asp, t) ==
    decided(cP, img, asp, t, known(c, img, asp, t, given(c, asp)).sound)

\* the numbers of a crop are all within the denominators followed
Followed(c) == \A f \in {"x", "y", "width", "height"} : c[f].d <= MaxDen

----------------------------------------------------------------------------
(* fitCrop(crop, image, aspect, transform), statement by statement, and     *)
(* then fitCrop of its result with the same image, aspect and transform.    *)
(* pc: "call" at the entry, "a".."d" before the isWithin test of that       *)
(* corner in SCALE mode, "done" at the return.                              *)

\* the component plays no part in the call
NotMounted ==
    /\ loaded = FALSE
    /\ sized = FALSE
    /\ shown = FALSE
    /\ finite = TRUE
    /\ observer = [crop |-> NoCrop, render |-> 1]
    /\ events = 0
    /\ last = "none"

InitFitCrop ==
    /\ matrix = Identity
    /\ canvas = NoCanvas
    /\ mapped = NoPoint
    /\ corners = NoCorners
    /\ refits = 0
    /\ values = <<>>
    /\ result = Zero
    /\ NotMounted
    /\ pc = "call"
    /\ image \in Images
    /\ aspect \in Aspects
    /\ transform \in {SCALE, TRANSLATE}
    /\ crop \in {c \in Crops : decided(c, image, aspect, transform, given(c, aspect))}
    /\ cPrime = crop
    /\ path = "none"
    /\ calls = 1
    /\ mode = transform
    /\ nested = 0
    /\ fixed = <<>>
    /\ p = NoPoint
    /\ o = NoPoint
    /\ angle = Upright
    /\ diagonal = 1
    /\ fitted = NoFit
    /\ shift = NoShift

\* case Transformations.SCALE is entered (line 276) by the outer call (c is
\* crop) or by the nested one (c is the crop TRANSLATE passed, held in cPrime)
EnterScale ==
    /\ pc = "call"
    /\ mode = SCALE
    /\ cPrime' = IF nested = 0 THEN crop ELSE cPrime
    /\ path' = IF nested = 0 THEN "scale" ELSE path
    /\ pc' = "a"
    /\ UNCHANGED <<image, aspect, crop, transform, calls, mode, nested, fixed,
                   p, o, angle, diagonal, fitted, shift>>
    /\ UNCHANGED viewVars
    /\ UNCHANGED <<mathVars, cropVars>>

\* case Transformations.TRANSLATE (lines 295-331): returns, or calls
\* fitCrop(c, .., SCALE) or fitCrop(cPrime, .., SCALE), whose result it returns
Translate ==
    /\ pc = "call"
    /\ mode = TRANSLATE
    /\ nested < MaxNested
    /\ \E r \in {translateCrop(IF nested = 0 THEN crop ELSE cPrime, image)} :
           /\ cPrime' = r.crop
           /\ path' = r.path
           /\ IF r.path \in {"scaleOriginal", "scaleMoved"}
              THEN /\ pc' = "call"
                   /\ mode' = nestedCall(r.path)
                   /\ nested' = nested + 1
              ELSE /\ pc' = "done"
                   /\ UNCHANGED <<mode, nested>>
    /\ UNCHANGED <<image, aspect, crop, transform, calls, fixed,
                   p, o, angle, diagonal, fitted, shift>>
    /\ UNCHANGED viewVars
    /\ UNCHANGED <<mathVars, cropVars>>

next(k) == CASE k = "a" -> "b" [] k = "b" -> "c" [] k = "c" -> "d" [] k = "d" -> "done"

\* the isWithin test of corner k and the fitPoint call it guards (lines 279-293)
FixCorner(k) ==
    /\ pc = k
    /\ \E points \in {getCorners(cPrime)} :
           /\ cPrime' = fixCorner(cPrime, points, k, image, aspect, crop.angle)
           /\ IF isWithin(points[k], image)
              THEN UNCHANGED <<fixed, p, o, angle, diagonal>>
              ELSE /\ fixed' = Append(fixed, k)
                   /\ p' = points[k]
                   /\ o' = points[opposite(k)]
                   /\ angle' = crop.angle
                   /\ diagonal' = diagonalOf(k)
    /\ pc' = next(k)
    /\ UNCHANGED <<image, aspect, crop, transform, path, calls, mode, nested,
                   fitted, shift>>
    /\ UNCHANGED viewVars
    /\ UNCHANGED <<mathVars, cropVars>>

\* the caller passes the result to fitCrop once more; its numbers are exact
\* when they are binary fractions of a level crop and so were those of every
\* crop the first call went through
FitAgain ==
    /\ pc = "done"
    /\ calls = 1
    /\ Followed(cPrime)
    /\ crop' \in {c \in {cPrime} : decidedAgain(crop, c, image, aspect, transform)}
    /\ calls' = 2
    /\ mode' = transform
    /\ nested' = 0
    /\ fixed' = <<>>
    /\ path' = "none"
    /\ pc' = "call"
    /\ UNCHANGED <<image, aspect, transform, cPrime, p, o, angle, diagonal, fitted, shift>>
    /\ UNCHANGED viewVars
    /\ UNCHANGED <<mathVars, cropVars>>

NextFitCrop ==
    \/ EnterScale
    \/ Translate
    \/ \E k \in {"a", "b", "c", "d"} : FixCorner(k)
    \/ FitAgain

SpecFitCrop == InitFitCrop /\ [][NextFitCrop]_vars

----------------------------------------------------------------------------
(* A call fitPoint(p, o, image, aspect, angle, diagonal)                    *)

InitFitPoint ==
    /\ matrix = Identity
    /\ canvas = NoCanvas
    /\ mapped = NoPoint
    /\ corners = NoCorners
    /\ refits = 0
    /\ values = <<>>
    /\ result = Zero
    /\ NotMounted
    /\ pc = "fitPoint"
    /\ image = PointImage
    /\ aspect \in PointAspects
    /\ p \in Points
    /\ o \in Points
    /\ diagonal \in {1, -1}
    /\ angle \in {a \in PointAngles : decidedPoint(p, o, image, aspect, a, diagonal, TRUE)}
    /\ fitted = NoFit
    /\ crop = NoCrop
    /\ transform = SCALE
    /\ cPrime = NoCrop
    /\ path = "none"
    /\ calls = 0
    /\ mode = transform
    /\ nested = 0
    /\ fixed = <<>>
    /\ shift = NoShift

FitPoint ==
    /\ pc = "fitPoint"
    /\ fitted' = fitPointSteps(p, o, image, aspect, angle, diagonal)
    /\ pc' = "fittedPoint"
    /\ UNCHANGED <<image, aspect, crop, transform, cPrime, path, calls, mode, nested, fixed,
                   p, o, angle, diagonal, shift>>
    /\ UNCHANGED viewVars
    /\ UNCHANGED <<mathVars, cropVars>>

SpecFitPoint == InitFitPoint /\ [][FitPoint]_vars

----------------------------------------------------------------------------
(* A call shiftRequired(p, image)                                           *)

InitShift ==
    /\ matrix = Identity
    /\ canvas = NoCanvas
    /\ mapped = NoPoint
    /\ corners = NoCorners
    /\ refits = 0
    /\ values = <<>>
    /\ result = Zero
    /\ NotMounted
    /\ pc = "shiftRequired"
    /\ image \in Images
    /\ p \in HalfPoints
    /\ shift = NoShift
    /\ aspect = undefined
    /\ o = NoPoint
    /\ angle = Upright
    /\ diagonal = 1
    /\ fitted = NoFit
    /\ crop = NoCrop
    /\ transform = SCALE
    /\ cPrime = NoCrop
    /\ path = "none"
    /\ calls = 0
    /\ mode = transform
    /\ nested = 0
    /\ fixed = <<>>

ShiftRequired ==
    /\ pc = "shiftRequired"
    /\ shift' = shiftRequired(p, image)
    /\ pc' = "shifted"
    /\ UNCHANGED <<image, aspect, crop, transform, cPrime, path, calls, mode, nested, fixed,
                   p, o, angle, diagonal, fitted>>
    /\ UNCHANGED viewVars
    /\ UNCHANGED <<mathVars, cropVars>>

SpecShift == InitShift /\ [][ShiftRequired]_vars

----------------------------------------------------------------------------
(* A call resetCrop(image, aspect)                                          *)

InitReset ==
    /\ matrix = Identity
    /\ canvas = NoCanvas
    /\ mapped = NoPoint
    /\ corners = NoCorners
    /\ refits = 0
    /\ values = <<>>
    /\ result = Zero
    /\ NotMounted
    /\ pc = "resetCrop"
    /\ image \in ResetImages
    /\ aspect \in ResetAspects
    /\ cPrime = NoCrop
    /\ crop = NoCrop
    /\ transform = SCALE
    /\ path = "none"
    /\ calls = 0
    /\ mode = transform
    /\ nested = 0
    /\ fixed = <<>>
    /\ p = NoPoint
    /\ o = NoPoint
    /\ angle = Upright
    /\ diagonal = 1
    /\ fitted = NoFit
    /\ shift = NoShift

ResetCrop ==
    /\ pc = "resetCrop"
    /\ cPrime' = resetCrop(image, aspect)
    /\ pc' = "reset"
    /\ UNCHANGED <<image, aspect, crop, transform, path, calls, mode, nested, fixed,
                   p, o, angle, diagonal, fitted, shift>>
    /\ UNCHANGED viewVars
    /\ UNCHANGED <<mathVars, cropVars>>

SpecReset == InitReset /\ [][ResetCrop]_vars

----------------------------------------------------------------------------
(* fitCrop(resetCrop(image, aspect), image, aspect, transform): the crop the *)
(* image-load handler sets is fitted, as the first drag or rotation does     *)

InitResetFit ==
    /\ matrix = Identity
    /\ canvas = NoCanvas
    /\ mapped = NoPoint
    /\ corners = NoCorners
    /\ refits = 0
    /\ values = <<>>
    /\ result = Zero
    /\ NotMounted
    /\ pc = "call"
    /\ image \in ResetImages
    /\ aspect \in ResetAspects
    /\ transform \in {SCALE, TRANSLATE}
    /\ crop \in {c \in {resetCrop(image, aspect)} :
                    decided(c, image, aspect, transform, exactAspect(aspect))}
    /\ cPrime = crop
    /\ path = "none"
    /\ calls = 1
    /\ mode = transform
    /\ nested = 0
    /\ fixed = <<>>
    /\ p = NoPoint
    /\ o = NoPoint
    /\ angle = Upright
    /\ diagonal = 1
    /\ fitted = NoFit
    /\ shift = NoShift

SpecResetFit == InitResetFit /\ [][NextFitCrop]_vars

----------------------------------------------------------------------------
(* A point projected with an invertible transform and back: imageToCanvas   *)
(* then canvasToImage, or canvasToImage then imageToCanvas                  *)

InitProject ==
    /\ matrix \in Invertible
    /\ canvas = NoCanvas
    /\ mapped = NoPoint
    /\ corners = NoCorners
    /\ refits = 0
    /\ values = <<>>
    /\ result = Zero
    /\ NotMounted
    /\ pc \in {"imageToCanvas", "canvasToImage"}
    /\ p \in Points
    /\ image = PointImage
    /\ aspect = undefined
    /\ crop = NoCrop
    /\ transform = SCALE
    /\ cPrime = NoCrop
    /\ path = "none"
    /\ calls = 0
    /\ mode = SCALE
    /\ nested = 0
    /\ fixed = <<>>
    /\ o = NoPoint
    /\ angle = Upright
    /\ diagonal = 1
    /\ fitted = NoFit
    /\ shift = NoShift

\* imageToCanvas(p, transform), or imageToCanvas of what canvasToImage returned
ImageToCanvas ==
    /\ \/ pc = "imageToCanvas" /\ mapped' = imageToCanvas(p, matrix) /\ pc' = "canvasToImageBack"
       \/ pc = "imageToCanvasBack" /\ mapped' = imageToCanvas(mapped, matrix) /\ pc' = "imageAgain"
    /\ UNCHANGED <<image, aspect, crop, transform, cPrime, path, calls, mode, nested, fixed,
                   p, o, angle, diagonal, fitted, shift, matrix, canvas, corners, refits>>
    /\ UNCHANGED <<mathVars, cropVars>>

\* canvasToImage(p, transform), or canvasToImage of what imageToCanvas returned
CanvasToImage ==
    /\ \/ pc = "canvasToImage" /\ mapped' = canvasToImage(p, matrix) /\ pc' = "imageToCanvasBack"
       \/ pc = "canvasToImageBack" /\ mapped' = canvasToImage(mapped, matrix) /\ pc' = "canvasAgain"
    /\ UNCHANGED <<image, aspect, crop, transform, cPrime, path, calls, mode, nested, fixed,
                   p, o, angle, diagonal, fitted, shift, matrix, canvas, corners, refits>>
    /\ UNCHANGED <<mathVars, cropVars>>

NextProject == ImageToCanvas \/ CanvasToImage

SpecProject == InitProject /\ [][NextProject]_vars

----------------------------------------------------------------------------
(* A call getCorners(crop)                                                  *)

InitCorners ==
    /\ pc = "getCorners"
    /\ crop \in CornerCrops
    /\ corners = NoCorners
    /\ matrix = Identity
    /\ canvas = NoCanvas
    /\ mapped = NoPoint
    /\ refits = 0
    /\ values = <<>>
    /\ result = Zero
    /\ NotMounted
    /\ image = PointImage
    /\ aspect = undefined
    /\ transform = SCALE
    /\ cPrime = NoCrop
    /\ path = "none"
    /\ calls = 0
    /\ mode = SCALE
    /\ nested = 0
    /\ fixed = <<>>
    /\ p = NoPoint
    /\ o = NoPoint
    /\ angle = Upright
    /\ diagonal = 1
    /\ fitted = NoFit
    /\ shift = NoShift

GetCorners ==
    /\ pc = "getCorners"
    /\ corners' = getCorners(crop)
    /\ pc' = "gotCorners"
    /\ UNCHANGED <<image, aspect, crop, transform, cPrime, path, calls, mode, nested, fixed,
                   p, o, angle, diagonal, fitted, shift, matrix, canvas, mapped, refits>>
    /\ UNCHANGED <<mathVars, cropVars>>

SpecCorners == InitCorners /\ [][GetCorners]_vars

----------------------------------------------------------------------------
(* A call maxMagnitude(...values) or approxEqual(a, b)                      *)

InitMath ==
    /\ pc \in {"maxMagnitude", "approxEqual"}
    /\ values \in Arguments
    /\ pc = "approxEqual" => Len(values) = 2
    /\ result = Zero
    /\ NotMounted
    /\ matrix = Identity
    /\ canvas = NoCanvas
    /\ mapped = NoPoint
    /\ corners = NoCorners
    /\ refits = 0
    /\ image = PointImage
    /\ aspect = undefined
    /\ crop = NoCrop
    /\ transform = SCALE
    /\ cPrime = NoCrop
    /\ path = "none"
    /\ calls = 0
    /\ mode = SCALE
    /\ nested = 0
    /\ fixed = <<>>
    /\ p = NoPoint
    /\ o = NoPoint
    /\ angle = Upright
    /\ diagonal = 1
    /\ fitted = NoFit
    /\ shift = NoShift

\* everything but the state of the mathExtension call
restVars == <<image, aspect, crop, transform, cPrime, path, calls, mode, nested, fixed,
              p, o, angle, diagonal, fitted, shift, viewVars, cropVars>>

MaxMagnitude ==
    /\ pc = "maxMagnitude"
    /\ result' = maxMagnitudeAll(values)
    /\ pc' = "maxMagnitudeDone"
    /\ UNCHANGED <<values, restVars>>

ApproxEqual ==
    /\ pc = "approxEqual"
    /\ result' = approxEqual(values[1], values[2])
    /\ pc' = "approxEqualDone"
    /\ UNCHANGED <<values, restVars>>

NextMath == MaxMagnitude \/ ApproxEqual

SpecMath == InitMath /\ [][NextMath]_vars

----------------------------------------------------------------------------
(* A call transformToFit(crop, canvas), and then getCanvasCorners(crop, t)  *)
(* of the transform t it has returned: the corners the component tests in   *)
(* its refit effect after it has set the transform to fit.                  *)

InitView ==
    /\ pc = "transformToFit"
    /\ crop \in Crops
    /\ canvas \in Viewports
    /\ matrix = Identity
    /\ mapped = NoPoint
    /\ corners = NoCorners
    /\ refits = 0
    /\ values = <<>>
    /\ result = Zero
    /\ NotMounted
    /\ image = PointImage
    /\ aspect = undefined
    /\ transform = SCALE
    /\ cPrime = NoCrop
    /\ path = "none"
    /\ calls = 0
    /\ mode = SCALE
    /\ nested = 0
    /\ fixed = <<>>
    /\ p = NoPoint
    /\ o = NoPoint
    /\ angle = Upright
    /\ diagonal = 1
    /\ fitted = NoFit
    /\ shift = NoShift

\* what the calls of utils.tsx keep of their own
fitVars == <<cPrime, path, calls, mode, nested, fixed, p, o, angle, diagonal,
             fitted, shift, mapped>>
callVars == <<transform, fitVars>>

\* transformToFit(crop, canvas)
TransformToFit ==
    /\ pc = "transformToFit"
    /\ matrix' = transformToFit(crop, canvas)
    /\ pc' = "getCanvasCorners"
    /\ UNCHANGED <<image, aspect, crop, canvas, corners, refits, callVars, mathVars,
                   cropVars>>

\* getCanvasCorners(crop, transform) with the transform returned
GetCanvasCorners ==
    /\ pc = "getCanvasCorners"
    /\ corners' = getCanvasCorners(crop, matrix)
    /\ pc' = "corners"
    /\ UNCHANGED <<image, aspect, crop, canvas, matrix, refits, callVars, mathVars,
                   cropVars>>

NextView == TransformToFit \/ GetCanvasCorners

SpecView == InitView /\ [][NextView]_vars

----------------------------------------------------------------------------
(* The Crop component (Crop.tsx 236-520) from its first render: cropState   *)
(* is crop, canvasState is matrix, image and canvas, with loaded and sized  *)
(* telling whether image and canvas are defined. Each handler is one        *)
(* action; the refit effect runs between any two of them when the state has *)
(* changed: pc is "effect" or "dragged" (setPosition has set cropState)     *)
(* when it is due and "settled" when it is not. A handler that calls        *)
(* fitCrop takes two steps, with pc "fit" in between: crop is then the      *)
(* argument of fitCrop and transform its Transformations argument.          *)
(* A transform fitted to a crop of no width and no height has the scale     *)
(* Infinity (finite is FALSE, and matrix is left as it was): the refit      *)
(* effect then sets corners at +-Infinity or not numbers, and fits the      *)
(* transform again when one of them is outside.                             *)
(* What onMove and setPosition compute with such a transform is not a       *)
(* number, and they are not followed then; nor is a crop whose numbers have *)
(* denominators above MaxDen followed any further. The refit effect asks    *)
(* for itself again without end when its test holds on a transform just     *)
(* fitted; it is followed for MaxRefits refits in a row.                    *)

\* const MIN_CROP = 10
MIN_CROP == 10

\* enum Corner {TL, TR, BL, BR}
Corner == {"TL", "TR", "BL", "BR"}

\* the corner each Handle is rendered at (Crop.tsx 482-485)
handleAt(corner) ==
    CASE corner = "TL" -> "a" [] corner = "TR" -> "b"
      [] corner = "BR" -> "c" [] corner = "BL" -> "d"

\* the first switch of setPosition (Crop.tsx 372-389)
oppositeHandle(corner) ==
    CASE corner = "BL" -> "b" [] corner = "BR" -> "a"
      [] corner = "TR" -> "d" [] corner = "TL" -> "c"

diagonalFrom(corner) == IF corner \in {"BL", "TR"} THEN -1 ELSE 1

\* minX and minY of setPosition (Crop.tsx 391-402)
minimum(asp) ==
    IF asp.defined /\ ~IsZero(asp.value)
    THEN IF Less(asp.value, One) THEN Point(Z(MIN_CROP), Over(Z(MIN_CROP), asp.value))
         ELSE IF Less(One, asp.value) THEN Point(Times(Z(MIN_CROP), asp.value), Z(MIN_CROP))
         ELSE Point(Z(MIN_CROP), Z(MIN_CROP))
    ELSE Point(Z(MIN_CROP), Z(MIN_CROP))

\* the two switches of setPosition that keep pos away from opposite
\* (Crop.tsx 404-428)
limited(pos, opp, corner, min) ==
    Point(IF corner \in {"BR", "TR"}
          THEN MathMax(pos.x, Plus(opp.x, min.x))
          ELSE MathMin(pos.x, Minus(opp.x, min.x)),
          IF corner \in {"TR", "TL"}
          THEN MathMin(pos.y, Minus(opp.y, min.y))
          ELSE MathMax(pos.y, Plus(opp.y, min.y)))

\* cornerClamp(pos) with the canvas measured (Crop.tsx 346-351)
cornerClamp(pos, size) ==
    Point(clamp(pos.x, Times(CROP_BUFFER, size.width),
                Times(Minus(One, CROP_BUFFER), size.width)),
          clamp(pos.y, Times(CROP_BUFFER, size.height),
                Times(Minus(One, CROP_BUFFER), size.height)))

\* the position Handle.onMove passes to setPosition (Crop.tsx 171-173)
handlePosition(cs, corner, size, delta) ==
    Point(Plus(cornerClamp(cs[handleAt(corner)], size).x, delta.x),
          Plus(cornerClamp(cs[handleAt(corner)], size).y, delta.y))

\* the crop setPosition(pos, corner) passes to fitCrop, or the cropState it
\* leaves (Crop.tsx 367-432)
setPosition(c, isLoaded, isShown, cs, m, img, asp, pos, corner) ==
    IF ~isLoaded \/ ~isShown THEN c
    ELSE Only({Only({fitPoint(p0, o0, img, asp, c.angle, diagonalFrom(corner))
                     : p0 \in {canvasToImage(lim, inv)}, o0 \in {canvasToImage(opp, inv)}})
               : lim \in {limited(pos, cs[oppositeHandle(corner)], corner, minimum(asp))},
                 opp \in {cs[oppositeHandle(corner)]},
                 inv \in {m}})

\* onMove without the test of canvasState.image
onMoveUnloaded(c, isLoaded, m, delta) ==
    Only({Only({[c EXCEPT !.x = imagePos.x, !.y = imagePos.y]
                : imagePos \in {canvasToImage(Point(Minus(screenPos.x, delta.x),
                                                    Minus(screenPos.y, delta.y)), m)}})
          : screenPos \in {imageToCanvas(c, m)}})

\* the crop onMove(e) passes to fitCrop, or the cropState it leaves
\* (Crop.tsx 264-276)
onMove(c, isLoaded, m, delta) ==
    IF ~isLoaded THEN c
    ELSE Only({Only({[c EXCEPT !.x = imagePos.x, !.y = imagePos.y]
                     : imagePos \in {canvasToImage(Point(Minus(screenPos.x, delta.x),
                                                         Minus(screenPos.y, delta.y)), m)}})
               : screenPos \in {imageToCanvas(c, m)}})

\* the crop the rotation effect passes to fitCrop, or the cropState it leaves
\* (Crop.tsx 444-449)
rotation(c, isLoaded, r) == IF ~isLoaded THEN c ELSE [c EXCEPT !.angle = r]

\* the aspect a handler passes to fitCrop: props.aspect, and in the rotation
\* effect props.aspect ?? crop.width / crop.height (Crop.tsx 449)
aspectOf(handler, asp, c) ==
    IF handler = "rotation" /\ ~asp.defined THEN Fixed(Over(c.width, c.height)) ELSE asp

\* useState(resetCrop({width: 0, height: 0}, props.aspect)) (Crop.tsx 253):
\* nothing of it but zeros, whatever the aspect
mountCrop == CropState(Zero, Zero, Zero, Zero, Upright)

\* canvasState.image before the image has loaded
NoImage == Dimension(Zero, Zero)

\* the images, the viewports, the aspects, the rotations and the pointer
\* movements of the component
Photos == {Dimension(Z(8999), Z(8999))}
Screens == {Dimension(Z(20000), Z(20000))}
CropAspects == {undefined}
Rotations == {Upright, Rot(Zero, One)}
Moves == {Point(Z(dx), Z(dy)) : dx, dy \in {-17998, -8999, 8999, 17998}}

InitCrop ==
    /\ pc = "settled"
    /\ aspect \in CropAspects
    /\ crop = mountCrop
    /\ matrix = Identity
    /\ image = NoImage
    /\ canvas = NoCanvas
    /\ corners = NoCorners
    /\ NotMounted
    /\ refits = 0
    /\ values = <<>>
    /\ result = Zero
    /\ mapped = NoPoint
    /\ transform = SCALE
    /\ cPrime = NoCrop
    /\ path = "none"
    /\ calls = 0
    /\ mode = SCALE
    /\ nested = 0
    /\ fixed = <<>>
    /\ p = NoPoint
    /\ o = NoPoint
    /\ angle = Upright
    /\ diagonal = 1
    /\ fitted = NoFit
    /\ shift = NoShift

\* an event the component handles with its state settled
Handles(name) ==
    /\ pc = "settled"
    /\ events < MaxEvents
    /\ events' = events + 1
    /\ last' = name

\* transformToFit(c, canvas) has finite entries: the scale is Infinity only
\* when both quotients are (fitRatio)
fits(c) == ~(IsZero(c.width) /\ IsZero(c.height))

\* the effect of Crop.tsx 305-318 depends on canvasRef.current, which is null
\* in the first render and the canvas from the second on: the effect runs
\* after the first render and again after the second, and the callback it
\* creates then keeps the cropState c of the second render for good
rendered(ob, c) == IF ob.render = 1 THEN [crop |-> c, render |-> 2] ELSE ob

\* the cropState of the render that follows the first setState of img.onload
\* (Crop.tsx 326-330): with the three calls in one batch the render has the
\* crop they set, and with a render for each call the one after setImage has
\* the crop before them. Which of the two it is depends on the React the
\* component is built with, and both are followed.
batches(before, after) == {before, after}

\* the callback of the ResizeObserver (Crop.tsx 308-314): the transform is
\* fitted to the cropState of its closure, not to the current one
Resize ==
    /\ Handles("resize")
    /\ \E size \in Screens :
           /\ canvas' = size
           /\ matrix' = IF fits(observer.crop) THEN transformToFit(observer.crop, size)
                        ELSE matrix
    /\ sized' = TRUE
    /\ finite' = fits(observer.crop)
    /\ observer' = rendered(observer, crop)
    /\ pc' = "effect"
    /\ UNCHANGED <<image, aspect, crop, corners, refits, callVars, mathVars,
                   loaded, shown>>

\* img.onload (Crop.tsx 325-331), of the first props.src and of every one
\* after it
OnLoad ==
    /\ Handles("onload")
    /\ \E img \in Photos :
           /\ image' = img
           /\ crop' = resetCrop(img, aspect)
           /\ observer' \in {rendered(observer, c) :
                                c \in batches(crop, resetCrop(img, aspect))}
    /\ loaded' = TRUE
    /\ pc' = "effect"
    /\ UNCHANGED <<aspect, matrix, canvas, corners, refits, callVars, mathVars,
                   sized, shown, finite>>

\* onMove(e) of the canvas (Crop.tsx 264-285), up to its call of fitCrop
OnMove ==
    /\ Handles("onMove")
    /\ loaded => finite /\ Followed(crop)
    /\ \E delta \in Moves : crop' = onMove(crop, loaded, matrix, delta)
    /\ pc' = IF loaded THEN "fit" ELSE pc
    /\ transform' = IF loaded THEN TRANSLATE ELSE transform
    /\ UNCHANGED <<image, aspect, matrix, canvas, corners, refits, fitVars, mathVars,
                   loaded, sized, shown, finite, observer>>

\* setPosition(pos, corner), called by Handle.onMove (Crop.tsx 367-432), up to
\* its call of fitCrop
SetPosition ==
    /\ Handles("setPosition")
    /\ (loaded /\ shown) => finite /\ Followed(crop)
    /\ \E corner \in Corner, delta \in Moves :
           crop' = setPosition(crop, loaded, shown, corners, matrix, image, aspect,
                               handlePosition(corners, corner, canvas, delta), corner)
    /\ pc' = IF loaded /\ shown THEN "fit" ELSE pc
    /\ transform' = IF loaded /\ shown THEN TRANSLATE ELSE transform
    /\ UNCHANGED <<image, aspect, matrix, canvas, corners, refits, fitVars, mathVars,
                   loaded, sized, shown, finite, observer>>

\* the aspect fitCrop is called with is a ratio of numbers up to MaxRatio
simple(asp) == asp.defined => (asp.value.n <= MaxRatio /\ asp.value.d <= MaxRatio)

\* the rotation effect (Crop.tsx 443-457), when props.rotation has changed
\* and the component has rendered again, up to its call of fitCrop. With no
\* props.aspect the aspect is crop.width / crop.height, not a number or
\* Infinity for a crop of no height: the call is not followed then, and it
\* is followed for the ratios up to MaxRatio (a crop that has been moved or
\* rotated; the numbers of fitPoint grow with the square of the ratio).
RotationEffect ==
    /\ Handles("rotation")
    /\ loaded => /\ Followed(crop)
                 /\ aspect.defined \/ ~IsZero(crop.height)
                 /\ simple(aspectOf("rotation", aspect, crop))
    /\ \E r \in Rotations : crop' = rotation(crop, loaded, r)
    /\ pc' = IF loaded THEN "fit" ELSE pc
    /\ transform' = IF loaded THEN SCALE ELSE transform
    /\ observer' = rendered(observer, crop)
    /\ UNCHANGED <<image, aspect, matrix, canvas, corners, refits, fitVars, mathVars,
                   loaded, sized, shown, finite>>

\* the call of fitCrop in onMove (Crop.tsx 273-283), in setPosition
\* (Crop.tsx 431) and in the rotation effect (Crop.tsx 446-455): cropState is
\* set to what it returns, and onMove and the rotation effect set the transform
\* to fit it
Fit ==
    /\ pc = "fit"
    /\ \E temp \in {fitCrop(crop, image, aspectOf(last, aspect, crop), transform)} :
           /\ crop' = temp
           /\ IF last = "setPosition"
              THEN /\ pc' = "dragged"
                   /\ UNCHANGED <<matrix, finite>>
              ELSE /\ pc' = "effect"
                   /\ Followed(temp) /\ fits(temp)
                   /\ matrix' = IF sized THEN transformToFit(temp, canvas) ELSE matrix
                   /\ finite' = IF sized THEN TRUE ELSE finite
    /\ UNCHANGED <<image, aspect, canvas, corners, refits, callVars, mathVars,
                   loaded, sized, shown, observer, events, last>>

\* commitPosition (Crop.tsx 434-440), called by a Handle when the pointer is
\* released: the handles are rendered once corners is defined (Crop.tsx 460)
CommitPosition ==
    /\ Handles("commitPosition")
    /\ shown
    /\ IF ~sized
       THEN UNCHANGED <<pc, matrix, finite>>
       ELSE /\ Followed(crop)
            /\ pc' = "effect"
            /\ finite' = fits(crop)
            /\ matrix' = IF fits(crop) THEN transformToFit(crop, canvas) ELSE matrix
    /\ UNCHANGED <<image, aspect, crop, canvas, corners, refits, callVars, mathVars,
                   loaded, sized, shown, observer>>

\* the test of the refit effect (Crop.tsx 358)
outsideBuffer(cs, size) ==
    \/ Less(cs.a.x, Times(CROP_BUFFER, size.width))
    \/ Less(Times(Minus(One, CROP_BUFFER), size.width), cs.b.x)
    \/ Less(cs.a.y, Times(CROP_BUFFER, size.height))
    \/ Less(Times(Minus(One, CROP_BUFFER), size.height), cs.d.y)

\* a test of Crop.tsx 358 compares two numbers that are equal: CROP_BUFFER
\* is not a binary fraction, and a corner that is on the buffer line here is
\* on either side of it in doubles
tiedBuffer(cs, size) ==
    \/ cs.a.x = Times(CROP_BUFFER, size.width)
    \/ cs.b.x = Times(Minus(One, CROP_BUFFER), size.width)
    \/ cs.a.y = Times(CROP_BUFFER, size.height)
    \/ cs.d.y = Times(Minus(One, CROP_BUFFER), size.height)

\* the test of Crop.tsx 358 comes out in doubles as it does here: one of the
\* four comparisons holds by more than rounding, or none is between equals
decidedBuffer(cs, size) == outsideBuffer(cs, size) \/ ~tiedBuffer(cs, size)

\* the values of a number that are not rationals: n / 0 stands for +Infinity,
\* -Infinity and NaN by the sign of n. No operator of the arithmetic is
\* applied to them.
Infinity == [n |-> 1, d |-> 0]

NegInfinity == [n |-> -1, d |-> 0]

NaN == [n |-> 0, d |-> 0]

\* v * Infinity (DOMPoint.matrixTransform, utils.tsx 72, under a transform of
\* scale Infinity): 0 * Infinity is not a number
timesInfinity(v) ==
    IF IsZero(v) THEN NaN ELSE IF Less(Zero, v) THEN Infinity ELSE NegInfinity

\* getCanvasCorners(c, transform) (utils.tsx 67-75) under the transform of
\* scale Infinity that transformToFit gives for the crop of the first render
\* (no rotation, origin of the scale at (0, 0)): each coordinate of a corner
\* of the crop in the image is multiplied by Infinity, and the translation
\* added to it changes nothing
infiniteCorners(c) ==
    LET cs == getCorners(c)
        at(q) == Point(timesInfinity(q.x), timesInfinity(q.y))
    IN  [a |-> at(cs.a), b |-> at(cs.b), c |-> at(cs.c), d |-> at(cs.d)]

\* the test of Crop.tsx 358 on such corners: -Infinity is less than every
\* bound and +Infinity greater, and no comparison holds on NaN
outsideInfinite(cs) ==
    \/ cs.a.x = NegInfinity
    \/ cs.b.x = Infinity
    \/ cs.a.y = NegInfinity
    \/ cs.d.y = Infinity

\* the corners of c under the scale Infinity are the ones of the doubles: c
\* is the crop resetCrop has computed without rounding, or no coordinate of
\* its corners in the image is 0 (a 0 that is rounded in doubles has a sign
\* there, and the corner is at an Infinity where it is NaN here)
decidedInfinite(c) ==
    LET cs == getCorners(c)
        zero(q) == IsZero(q.x) \/ IsZero(q.y)
    IN  \/ c = resetCrop(image, aspect) /\ exactAspect(aspect)
        \/ ~(zero(cs.a) \/ zero(cs.b) \/ zero(cs.c) \/ zero(cs.d))

\* the refit effect (Crop.tsx 354-365): it runs after every render in which
\* cropState, the transform or the canvas has changed, and sets the transform
\* to fit when its test holds. refits counts the refits since the component
\* was last settled. The effect is followed when its test is decided, and
\* under a transform that is not finite when the crop has a width or a height
\* to fit the transform to; the corners it sets there (Crop.tsx 357) are at
\* Infinity or not numbers.
RefitEffect ==
    /\ pc \in {"effect", "dragged"}
    /\ IF ~loaded \/ ~sized
       THEN /\ pc' = "settled"
            /\ refits' = 0
            /\ UNCHANGED <<corners, shown, matrix, finite>>
       ELSE IF ~finite
       THEN /\ crop \in {c \in {crop} : /\ Followed(c) /\ fits(c)
                                        /\ decidedInfinite(c)}
            /\ corners' = infiniteCorners(crop)
            /\ shown' = TRUE
            /\ IF outsideInfinite(infiniteCorners(crop))
               THEN /\ refits < MaxRefits
                    /\ matrix' = transformToFit(crop, canvas)
                    /\ finite' = TRUE
                    /\ refits' = refits + 1
                    /\ pc' = "effect"
               ELSE /\ pc' = "settled"
                    /\ refits' = 0
                    /\ UNCHANGED <<matrix, finite>>
       ELSE \E cs \in {k \in {IF Followed(crop) THEN getCanvasCorners(crop, matrix)
                                 ELSE NoCorners} : decidedBuffer(k, canvas)} :
                /\ Followed(crop)
                /\ corners' = cs
                /\ shown' = TRUE
                /\ IF outsideBuffer(cs, canvas)
                   THEN /\ refits < MaxRefits
                        /\ matrix' = IF fits(crop) THEN transformToFit(crop, canvas)
                                     ELSE matrix
                        /\ finite' = fits(crop)
                        /\ refits' = refits + 1
                        /\ pc' = "effect"
                   ELSE /\ pc' = "settled"
                        /\ refits' = 0
                        /\ UNCHANGED <<matrix, finite>>
    /\ UNCHANGED <<image, aspect, crop, canvas, callVars, mathVars,
                   loaded, sized, observer, events, last>>

NextCrop ==
    \/ Resize \/ OnLoad \/ OnMove \/ SetPosition \/ RotationEffect \/ Fit
    \/ CommitPosition \/ RefitEffect

SpecCrop == InitCrop /\ [][NextCrop]_vars

\* The drags of the corner handles, from the state in which the canvas has
\* been measured, the image has then loaded (Resize, OnLoad) and the refit
\* effect has run once: the callback of the ResizeObserver has the crop of
\* the first render, the transform it has set has the scale Infinity, and the
\* effect has set the corners under it and the transform to fit. The events
\* are counted from there.
InitDrag ==
    /\ pc = "effect"
    /\ aspect \in CropAspects
    /\ image \in Photos
    /\ canvas \in Screens
    /\ crop = resetCrop(image, aspect)
    /\ matrix = transformToFit(crop, canvas)
    /\ corners = infiniteCorners(crop)
    /\ loaded = TRUE
    /\ sized = TRUE
    /\ shown = TRUE
    /\ finite = TRUE
    /\ observer = [crop |-> mountCrop, render |-> 2]
    /\ events = 0
    /\ last = "onload"
    /\ refits = 1
    /\ values = <<>>
    /\ result = Zero
    /\ mapped = NoPoint
    /\ transform = SCALE
    /\ cPrime = NoCrop
    /\ path = "none"
    /\ calls = 0
    /\ mode = SCALE
    /\ nested = 0
    /\ fixed = <<>>
    /\ p = NoPoint
    /\ o = NoPoint
    /\ angle = Upright
    /\ diagonal = 1
    /\ fitted = NoFit
    /\ shift = NoShift

NextDrag == SetPosition \/ Fit \/ CommitPosition \/ RefitEffect

SpecDrag == InitDrag /\ [][NextDrag]_vars

----------------------------------------------------------------------------
(* All the calls together                                                   *)

Init ==
    \/ InitFitCrop \/ InitFitPoint \/ InitShift \/ InitReset \/ InitProject \/ InitCorners
    \/ InitView \/ InitMath \/ InitResetFit

Next ==
    \/ NextFitCrop \/ FitPoint \/ ShiftRequired \/ ResetCrop \/ NextProject \/ GetCorners
    \/ NextView \/ NextMath

Spec == Init /\ [][Next]_vars

----------------------------------------------------------------------------
(* Properties                                                               *)

Corners == {"a", "b", "c", "d"}

\* 0 <= x <= width - 1 and 0 <= y <= height - 1
InBounds(pt, img) ==
    /\ Leq(Zero, pt.x) /\ Leq(pt.x, Minus(img.width, One))
    /\ Leq(Zero, pt.y) /\ Leq(pt.y, Minus(img.height, One))

AllCornersIn(c, img) == \A k \in Corners : InBounds(getCorners(c)[k], img)

\* width = a * height for the fixed aspect a
HasAspect(c, asp) == c.width = Times(asp.value, c.height)

\* C1: the crop fitCrop returns in SCALE mode has all four corners within
\* [0, width - 1] x [0, height - 1].
C1_ScaleContained ==
    (pc = "done" /\ transform = SCALE) => AllCornersIn(cPrime, image)

\* C2: fitCrop is idempotent: fitting the result of fitCrop again, with the
\* same image, aspect and mode, returns it field by field.
C2_Idempotent ==
    (pc = "done" /\ calls = 2) => cPrime = crop

\* C3: a crop whose four corners all lie within [0, width - 1] x [0, height - 1],
\* corners on x = 0 or y = 0 included, is returned unchanged by fitCrop in
\* either mode and with any aspect.
C3_ValidUnchanged ==
    (pc = "done" /\ calls = 1 /\ AllCornersIn(crop, image)) => cPrime = crop

\* C4: with a fixed aspect a, the crop fitPoint returns has width = a * height,
\* and the crop fitCrop returns has width = a * height whenever its input had.
C4_AspectPreserved ==
    /\ (pc = "fittedPoint" /\ aspect.defined) => HasAspect(fitted.crop, aspect)
    /\ (pc = "done" /\ aspect.defined /\ HasAspect(crop, aspect))
          => HasAspect(cPrime, aspect)

\* a fitCrop call with a fixed aspect on a crop of that aspect, which passed a
\* corner to fitPoint and returned a smaller crop
C4_Witness ==
    /\ pc = "done" /\ calls = 1
    /\ aspect.defined /\ aspect.value # One
    /\ HasAspect(crop, aspect)
    /\ fixed # <<>>
    /\ Less(Zero, cPrime.width) /\ Less(cPrime.width, crop.width)

\* C5: the new position pPrime that fitPoint gives the moved corner lies within
\* [0, width - 1] x [0, height - 1], also when o lies outside the image.
C5_PointInImage ==
    pc = "fittedPoint" => InBounds(fitted.pPrime, image)

\* C6: every crop fitPoint returns has width > 0 and height > 0.
C6_PositiveSize ==
    pc = "fittedPoint" =>
        Less(Zero, fitted.crop.width) /\ Less(Zero, fitted.crop.height)

\* C7: resetCrop(image, undefined) is the crop centred at (width/2, height/2)
\* of the image's own width and height, with angle 0.
C7_ResetFree ==
    (pc = "reset" /\ ~aspect.defined) =>
        /\ Times(cPrime.x, Two) = image.width
        /\ Times(cPrime.y, Two) = image.height
        /\ cPrime.width = image.width
        /\ cPrime.height = image.height
        /\ cPrime.angle = Upright

\* resetCrop has returned for a free aspect and an image that is not square
C7_Witness ==
    pc = "reset" /\ ~aspect.defined /\ image.width # image.height

\* C8: resetCrop(image, a) for a fixed aspect a is centred in the image, has
\* angle 0, width = a * height, fits within the image and fills its width or
\* its height: the height when width/height of the image exceeds a, the width
\* otherwise (also when the two ratios are equal).
C8_ResetFixed ==
    (pc = "reset" /\ aspect.defined) =>
        /\ Times(cPrime.x, Two) = image.width
        /\ Times(cPrime.y, Two) = image.height
        /\ cPrime.angle = Upright
        /\ HasAspect(cPrime, aspect)
        /\ Leq(cPrime.width, image.width)
        /\ Leq(cPrime.height, image.height)
        /\ IF Less(Times(aspect.value, image.height), image.width)
           THEN cPrime.height = image.height /\ Less(cPrime.width, image.width)
           ELSE cPrime.width = image.width

\* resetCrop has returned a crop bound by the height, narrower than the image
C8_Witness ==
    /\ pc = "reset" /\ aspect.defined
    /\ cPrime.height = image.height
    /\ Less(cPrime.width, image.width)

\* the claimed shift of one coordinate v into [0, dim - 1]
MinimalShift(v, dim) ==
    IF Less(v, Zero) THEN Neg(v)
    ELSE IF Less(Minus(dim, One), v) THEN Minus(Minus(dim, One), v)
    ELSE Zero

\* C9: shiftRequired(q, image) is, on each axis, the minimal displacement of q
\* into [0, dim - 1]: 0 exactly when q is inside, -q below 0, (dim - 1) - q
\* above dim - 1; and q + shiftRequired(q, image) lies inside the range.
C9_MinimalShift ==
    pc = "shifted" =>
        /\ shift.dx = MinimalShift(p.x, image.width)
        /\ shift.dy = MinimalShift(p.y, image.height)
        /\ InBounds(Point(Plus(p.x, shift.dx), Plus(p.y, shift.dy)), image)

\* two corners of c need nonzero shifts of opposite sign on the same axis
OpposedShifts(c, img) ==
    \E i, j \in Corners :
        LET si == shiftRequired(getCorners(c)[i], img)
            sj == shiftRequired(getCorners(c)[j], img)
        IN  \/ Less(si.dx, Zero) /\ Less(Zero, sj.dx)
            \/ Less(si.dy, Zero) /\ Less(Zero, sj.dy)

\* C10: in TRANSLATE mode fitCrop returns fitCrop(c, image, aspect, SCALE) of the
\* original, untranslated crop exactly when two corners need nonzero shifts of
\* opposite sign on the same axis; a zero shift never triggers the fallback.
C10_FallbackIffOpposed ==
    (transform = TRANSLATE /\ pc # "call") =>
        /\ (path = "scaleOriginal") <=> OpposedShifts(crop, image)
        /\ (path = "scaleOriginal" /\ pc = "a") => cPrime = crop

\* TRANSLATE fell back to SCALE on the original crop although one corner of it
\* needs no shift at all
C10_Witness ==
    /\ transform = TRANSLATE /\ pc = "a" /\ path = "scaleOriginal"
    /\ \E k \in Corners : shiftRequired(getCorners(crop)[k], image) = NoShift

\* the required shifts of the four corners of c on one axis
ShiftsOn(c, img, axis) == {shiftRequired(getCorners(c)[k], img)[axis] : k \in Corners}

\* the required shift of largest magnitude over the four corners on one axis
LargestShift(c, img, axis) ==
    CHOOSE s \in ShiftsOn(c, img, axis) :
        \A t \in ShiftsOn(c, img, axis) : Leq(MathAbs(t), MathAbs(s))

\* c moved by (dx, dy), its width, height and angle kept
MovedBy(c, dx, dy) == [c EXCEPT !.x = Plus(c.x, dx), !.y = Plus(c.y, dy)]

\* c moved by the largest required shift of each axis
MovedToFit(c, img) ==
    MovedBy(c, LargestShift(c, img, "dx"), LargestShift(c, img, "dy"))

\* C11: in TRANSLATE mode, when no two corners need opposite-signed shifts and
\* the corners translated by the largest-magnitude required shift of each axis
\* all lie inside the image, fitCrop returns the input crop moved by that
\* shift, with the input's width, height and angle, and does not enter SCALE.
C11_TranslatedByLargest ==
    (transform = TRANSLATE /\ pc = "done" /\ ~OpposedShifts(crop, image)
        /\ AllCornersIn(MovedToFit(crop, image), image))
    => /\ cPrime = MovedToFit(crop, image)
       /\ path \in {"moved", "unchanged"}

\* TRANSLATE returned a crop moved on both axes, two of whose corners needed
\* different nonzero shifts on the x axis
C11_Witness ==
    /\ transform = TRANSLATE /\ pc = "done" /\ path = "moved"
    /\ AllCornersIn(cPrime, image)
    /\ cPrime.x # crop.x /\ cPrime.y # crop.y
    /\ \E s, t \in ShiftsOn(crop, image, "dx") : s # t /\ ~IsZero(s) /\ ~IsZero(t)

\* C12: in TRANSLATE mode, when no two corners need opposite-signed shifts but
\* some corner of the translated crop lies outside the image, fitCrop returns
\* fitCrop(c', image, aspect, SCALE) for the translated crop c'; and when
\* TRANSLATE returns without falling back, every corner of its result lies
\* inside the image.
C12_TranslateRechecked ==
    (transform = TRANSLATE /\ pc # "call") =>
        /\ (~OpposedShifts(crop, image) /\ ~AllCornersIn(MovedToFit(crop, image), image))
              => path = "scaleMoved"
        /\ (path = "scaleMoved" /\ pc = "a") => cPrime = MovedToFit(crop, image)
        /\ (path \in {"moved", "unchanged"}) => AllCornersIn(cPrime, image)

\* no corner of c gets a shift from shiftRequired on either axis
NoShiftNeeded(c, img) ==
    \A k \in Corners : shiftRequired(getCorners(c)[k], img) = NoShift

\* C13: in TRANSLATE mode, when none of the four corners requires a shift on
\* either axis, fitCrop returns the input crop itself (the return of line 320,
\* recorded as path "unchanged"), without calling fitPoint and without
\* entering SCALE mode.
C13_NoShiftIdentity ==
    (transform = TRANSLATE /\ pc # "call" /\ NoShiftNeeded(crop, image)) =>
        /\ pc = "done"
        /\ path = "unchanged"
        /\ cPrime = crop
        /\ fixed = <<>>

\* TRANSLATE returned a rotated crop none of whose corners needed a shift
C13_Witness ==
    /\ transform = TRANSLATE /\ pc = "done" /\ calls = 1
    /\ NoShiftNeeded(crop, image)
    /\ ~IsZero(crop.angle.sin)
    /\ path = "unchanged"

\* c has the image's width and height, is axis-aligned (angle 0 or 180
\* degrees) and its centre is off the centre of the image
FillsTranslated(c, img) ==
    /\ c.width = img.width /\ c.height = img.height
    /\ IsZero(c.angle.sin)
    /\ (Times(c.x, Two) # img.width \/ Times(c.y, Two) # img.height)

\* C14: for an axis-aligned free-aspect crop of the image's width and height
\* translated by a nonzero offset, fitCrop(.., TRANSLATE) does not return a
\* pure translation: it goes through the SCALE fallback, and the crop it
\* returns is no wider and no higher than the input.
C14_FilledFallsBack ==
    (transform = TRANSLATE /\ pc # "call" /\ ~aspect.defined
        /\ FillsTranslated(crop, image))
    => /\ path \in {"scaleOriginal", "scaleMoved"}
       /\ pc = "done" => /\ Leq(cPrime.width, crop.width)
                         /\ Leq(cPrime.height, crop.height)

\* such a call has returned, through SCALE, a crop narrower than the input that
\* was off the centre on the x axis only
C14_Witness ==
    /\ transform = TRANSLATE /\ pc = "done" /\ calls = 1 /\ ~aspect.defined
    /\ FillsTranslated(crop, image)
    /\ crop.angle = Upright
    /\ Times(crop.y, Two) = image.height
    /\ fixed # <<>>
    /\ Less(cPrime.width, crop.width)

----------------------------------------------------------------------------
(* fitCrop runs to its return: JavaScript executes a call synchronously, so *)
(* while fitCrop has not returned its next statement is executed.  The      *)
(* position of the call is <<pc, nested>>.                                  *)

Positions == {"call", "a", "b", "c", "d", "done"}

\* the call has not returned and moves to another position
Advance ==
    /\ pc # "done"
    /\ pc' \in Positions
    /\ nested' \in 0 .. MaxNested
    /\ <<pc', nested'>> # <<pc, nested>>

SpecFitCropLive == SpecFitCrop /\ WF_<<pc, nested>>(Advance)

\* an upper bound of the statements left before the return
Remaining ==
    CASE pc = "call" -> IF mode = TRANSLATE THEN 6 - nested ELSE 5
      [] pc = "a" -> 4
      [] pc = "b" -> 3
      [] pc = "c" -> 2
      [] pc = "d" -> 1
      [] OTHER -> 0

\* C15: every call to fitCrop terminates: a TRANSLATE call makes at most one
\* nested fitCrop call, always in SCALE mode; a SCALE call makes no fitCrop
\* call and at most four fitPoint calls; the call depth is at most 2.
C15_Terminates ==
    /\ [](nested <= 1 /\ (nested = 1 => mode = SCALE) /\ Len(fixed) <= 4)
    /\ [][(mode = SCALE /\ pc # "done") => nested' = nested]_vars
    /\ [][pc # "done" => Remaining' < Remaining]_vars
    /\ (pc = "call") ~> (pc = "done")

\* a TRANSLATE call has returned through its nested SCALE call, which called
\* fitPoint four times
C15_Witness ==
    /\ pc = "done" /\ transform = TRANSLATE /\ nested = 1 /\ mode = SCALE
    /\ Len(fixed) = 4

\* the claimed pairing: the diagonal opposite of each corner and its sign
ClaimedOpposite == [a |-> "c", b |-> "d", c |-> "a", d |-> "b"]
ClaimedDiagonal == [a |-> 1, b |-> -1, c |-> 1, d |-> -1]
ClaimedOrder == [call |-> "a", a |-> "b", b |-> "c", c |-> "d", d |-> "done"]

\* this step passes a corner to fitPoint
CallsFitPoint == Len(fixed') = Len(fixed) + 1

\* C16: in SCALE mode fitCrop examines the corners in the order a, b, c, d,
\* each against the corners of the latest crop, and calls fitPoint for a corner
\* if and only if it lies outside [0, width - 1] x [0, height - 1], with the
\* diagonal opposite as o (a with c, b with d, c with a, d with b) and the
\* diagonal sign 1 for a and c, -1 for b and d.
C16_CornerOrder ==
    [][(mode = SCALE /\ pc # "done") =>
          /\ pc' = ClaimedOrder[pc]
          /\ pc \in Corners =>
                /\ CallsFitPoint <=> ~InBounds(getCorners(cPrime)[pc], image)
                /\ CallsFitPoint =>
                      /\ fixed' = Append(fixed, pc)
                      /\ p' = getCorners(cPrime)[pc]
                      /\ o' = getCorners(cPrime)[ClaimedOpposite[pc]]
                      /\ diagonal' = ClaimedDiagonal[pc]
                /\ ~CallsFitPoint => cPrime' = cPrime]_vars

\* C17: for every invertible transform and every point p,
\* canvasToImage(imageToCanvas(p, transform), transform) = p and
\* imageToCanvas(canvasToImage(p, transform), transform) = p.
C17_RoundTrip ==
    pc \in {"canvasAgain", "imageAgain"} => mapped = p

\* a point projected to the canvas and back with a transform that turns and
\* stretches, the canvas point being another point
C17_Witness ==
    /\ pc = "canvasAgain"
    /\ ~IsZero(matrix.b) /\ ~IsZero(matrix.c) /\ matrix.a # matrix.d
    /\ imageToCanvas(p, matrix) # p

\* the local point (lx, ly) rotated by the angle of c and translated by its
\* centre
Placed(c, lx, ly) ==
    Point(Plus(c.x, Minus(Times(lx, c.angle.cos), Times(ly, c.angle.sin))),
          Plus(c.y, Plus(Times(lx, c.angle.sin), Times(ly, c.angle.cos))))

\* C18: for every crop with width, height > 0 and any angle, getCorners returns
\* a, b, c, d as the local corners (-w/2, -h/2), (w/2, -h/2), (w/2, h/2),
\* (-w/2, h/2) rotated by the angle and translated by the centre, so that a/c
\* and b/d are the diagonals: midpoint(a, c) = midpoint(b, d) = (crop.x, crop.y).
C18_Corners ==
    pc = "gotCorners" =>
        /\ corners.a = Placed(crop, Neg(Half(crop.width)), Neg(Half(crop.height)))
        /\ corners.b = Placed(crop, Half(crop.width), Neg(Half(crop.height)))
        /\ corners.c = Placed(crop, Half(crop.width), Half(crop.height))
        /\ corners.d = Placed(crop, Neg(Half(crop.width)), Half(crop.height))
        /\ midpoint(corners.a, corners.c) = Point(crop.x, crop.y)
        /\ midpoint(corners.b, corners.d) = Point(crop.x, crop.y)

\* the corners of a crop that is not square, turned by atan(4/3) about a centre
\* off the origin
C18_Witness ==
    /\ pc = "gotCorners"
    /\ crop.angle = Rot(Q(3, 5), Q(4, 5))
    /\ crop.width # crop.height
    /\ ~IsZero(crop.x) /\ ~IsZero(crop.y)

\* the claimed scale: min(viewport.width / crop.width, viewport.height /
\* crop.height) * marginFactor
MarginFactor == Q(8999, 10000)
ClaimedScale(c, size) ==
    Times(MathMin(Over(size.width, c.width), Over(size.height, c.height)), MarginFactor)

\* the rectangle of the given extents centred in the viewport, corner by corner
Centred(size, w, h) ==
    [a |-> Point(Minus(Half(size.width), Half(w)), Minus(Half(size.height), Half(h))),
     b |-> Point(Plus(Half(size.width), Half(w)), Minus(Half(size.height), Half(h))),
     c |-> Point(Plus(Half(size.width), Half(w)), Plus(Half(size.height), Half(h))),
     d |-> Point(Minus(Half(size.width), Half(w)), Plus(Half(size.height), Half(h)))]

\* C19: for every crop (any centre, any angle) and every viewport, the
\* transform transformToFit returns maps the crop centre to the viewport centre
\* and the four corners of the crop to the axis-aligned rectangle centred there
\* of size scale * width by scale * height, scale being
\* min(viewport.width / crop.width, viewport.height / crop.height) * marginFactor.
C19_FitsViewport ==
    pc = "corners" =>
        /\ imageToCanvas(Point(crop.x, crop.y), matrix)
              = Point(Half(canvas.width), Half(canvas.height))
        /\ corners
              = Centred(canvas, Times(ClaimedScale(crop, canvas), crop.width),
                                Times(ClaimedScale(crop, canvas), crop.height))

\* C20: the view refit cannot oscillate: right after the transform is set to
\* transformToFit(crop, viewport) the view-space corners satisfy
\* a.x >= CROP_BUFFER * W, b.x <= (1 - CROP_BUFFER) * W, a.y >= CROP_BUFFER * H
\* and d.y <= (1 - CROP_BUFFER) * H, so the test of the refit effect fails on
\* them and no further refit is requested: computed again for the same crop
\* and viewport, the transform is the same.
C20_NoOscillation ==
    pc = "corners" =>
        /\ Leq(Times(CROP_BUFFER, canvas.width), corners.a.x)
        /\ Leq(corners.b.x, Times(Minus(One, CROP_BUFFER), canvas.width))
        /\ Leq(Times(CROP_BUFFER, canvas.height), corners.a.y)
        /\ Leq(corners.d.y, Times(Minus(One, CROP_BUFFER), canvas.height))
        /\ ~outsideBuffer(corners, canvas)
        /\ transformToFit(crop, canvas) = matrix

\* the larger in magnitude of two shifts of the same direction
Larger(s, t) == IF Less(MathAbs(s), MathAbs(t)) THEN t ELSE s

\* both shifts are nonzero and point the same way
SameDirection(s, t) ==
    \/ Less(s, Zero) /\ Less(t, Zero)
    \/ Less(Zero, s) /\ Less(Zero, t)

\* signsMatch as the claim words it: a zero shift matches any sign
LooselyMatch(s, t) == IsZero(s) \/ IsZero(t) \/ SameDirection(s, t)

\* the translation of step 1 on one axis, given when the two points move
MoveWhen(together, s, t) == IF together THEN Larger(s, t) ELSE Zero

\* p and o after step 1, both translated by (mx, my)
BothMovedBy(mx, my) ==
    /\ fitted.p = Point(Plus(p.x, mx), Plus(p.y, my))
    /\ fitted.o = Point(Plus(o.x, mx), Plus(o.y, my))

\* C21 as amended: in fitPoint step 1, on each axis independently, p and o are
\* both translated by the larger-magnitude of their two required shifts exactly
\* when sign(pShift) = sign(oShift) on that axis, that is when both need a
\* nonzero shift in the same direction (when neither needs one the translation
\* is 0); when only one of p, o needs a nonzero shift on an axis, or the two
\* required shifts have opposite signs, neither point is translated.
C21_ShiftedTogether ==
    pc = "fittedPoint" =>
        LET ps == shiftRequired(p, image)
            os == shiftRequired(o, image)
        IN  BothMovedBy(MoveWhen(SameDirection(ps.dx, os.dx), ps.dx, os.dx),
                        MoveWhen(SameDirection(ps.dy, os.dy), ps.dy, os.dy))

\* p and o are both off the right of the image by different amounts, and on
\* the y axis only p needs a shift: both moved on x, neither on y
C21_Witness ==
    /\ pc = "fittedPoint"
    /\ Less(shiftRequired(o, image).dx, shiftRequired(p, image).dx)
    /\ Less(shiftRequired(p, image).dx, Zero)
    /\ Less(Zero, shiftRequired(p, image).dy)
    /\ IsZero(shiftRequired(o, image).dy)
    /\ fitted.o = Point(Plus(o.x, shiftRequired(o, image).dx), o.y)

\* C21 as stated: in fitPoint step 1, on each axis independently, p and o are
\* both translated by the larger-magnitude of their two required shifts exactly
\* when signsMatch(pShift, oShift) holds on that axis, a zero shift matching
\* any sign (so when only one of p, o needs a nonzero shift on an axis, both
\* are moved by it); when the two have opposite signs neither is translated.
C21_ShiftedWhenSignsMatch ==
    pc = "fittedPoint" =>
        LET ps == shiftRequired(p, image)
            os == shiftRequired(o, image)
        IN  BothMovedBy(MoveWhen(LooselyMatch(ps.dx, os.dx), ps.dx, os.dx),
                        MoveWhen(LooselyMatch(ps.dy, os.dy), ps.dy, os.dy))

\* the positions of the arguments whose magnitude is the greatest
Greatest(vs) ==
    {i \in 1 .. Len(vs) : \A j \in 1 .. Len(vs) : Leq(MathAbs(vs[j]), MathAbs(vs[i]))}

\* the first and the last position of a non-empty set of positions
FirstOf(S) == CHOOSE i \in S : \A j \in S : i <= j
LastOf(S) == CHOOSE i \in S : \A j \in S : j <= i

\* C22 as amended: maxMagnitude returns an argument whose absolute value is the
\* maximum over all arguments, and when several arguments tie for the greatest
\* absolute value it returns the last of them in argument order (e.g.
\* maxMagnitude(5, -5) = -5).
C22_LastOfGreatest ==
    pc = "maxMagnitudeDone" =>
        /\ \A i \in 1 .. Len(values) : Leq(MathAbs(values[i]), MathAbs(result))
        /\ result = values[LastOf(Greatest(values))]

\* three arguments of which the first two tie for the greatest magnitude with
\* opposite signs: the second of them is returned
C22_Witness ==
    /\ pc = "maxMagnitudeDone"
    /\ Len(values) = 3
    /\ Greatest(values) = {1, 2}
    /\ values[1] = Neg(values[2])
    /\ result = values[2]

\* C22 as stated: maxMagnitude returns an argument whose absolute value is the
\* maximum over all arguments, and on a tie for the greatest absolute value it
\* returns the first of them in argument order (e.g. maxMagnitude(5, -5) = 5).
C22_FirstOfGreatest ==
    pc = "maxMagnitudeDone" =>
        /\ \A i \in 1 .. Len(values) : Leq(MathAbs(values[i]), MathAbs(result))
        /\ result = values[FirstOf(Greatest(values))]

\* C23: approxEqual(a, b) is true exactly when |a - b| < |maxMagnitude(a, b)| *
\* epsilon, the bound being taken in absolute value; in particular
\* approxEqual(a, a) is true for every nonzero a, negative as well as positive.
C23_ApproxEqual ==
    pc = "approxEqualDone" =>
        /\ result = approxEqualAbs(values[1], values[2])
        /\ (values[1] = values[2] /\ ~IsZero(values[1])) => result = TRUE

\* the direction of the line fitPoint moves p along, and its point at t
Direction == slopeOf(aspect.value, angle, diagonal)
Along(t) == Point(Plus(o.x, Times(t, Direction.x)), Plus(o.y, Times(t, Direction.y)))

\* the parameters t for which one coordinate v + t * s stays in [0, dim - 1]
\* (s # 0) lie between AxisLow and AxisHigh
AxisLow(v, s, dim) ==
    MathMin(Over(Neg(v), s), Over(Minus(Minus(dim, One), v), s))
AxisHigh(v, s, dim) ==
    MathMax(Over(Neg(v), s), Over(Minus(Minus(dim, One), v), s))

\* the least and the greatest t for which Along(t) lies in the image, o being
\* in the image
ValidLow ==
    IF IsZero(Direction.x) THEN AxisLow(o.y, Direction.y, image.height)
    ELSE IF IsZero(Direction.y) THEN AxisLow(o.x, Direction.x, image.width)
    ELSE MathMax(AxisLow(o.x, Direction.x, image.width),
                 AxisLow(o.y, Direction.y, image.height))
ValidHigh ==
    IF IsZero(Direction.x) THEN AxisHigh(o.y, Direction.y, image.height)
    ELSE IF IsZero(Direction.y) THEN AxisHigh(o.x, Direction.x, image.width)
    ELSE MathMin(AxisHigh(o.x, Direction.x, image.width),
                 AxisHigh(o.y, Direction.y, image.height))

\* the interval of fitPoint as its clamp takes it
IntervalLow == MathMin(domain(o, image, Direction).lower, domain(o, image, Direction).upper)
IntervalHigh == MathMax(domain(o, image, Direction).lower, domain(o, image, Direction).upper)

\* parameters the interval is tried on: quarters up to three either way
Samples == {Q(k, 4) : k \in -12 .. 12}

Dist2(a, b) ==
    Plus(Times(Minus(a.x, b.x), Minus(a.x, b.x)), Times(Minus(a.y, b.y), Minus(a.y, b.y)))

\* the scalar product of b - a with the direction
AlongDirection(a, b) ==
    Plus(Times(Minus(b.x, a.x), Direction.x), Times(Minus(b.y, a.y), Direction.y))
\* b - a is parallel to the direction
OnLine(a, b) ==
    Times(Minus(b.x, a.x), Direction.y) = Times(Minus(b.y, a.y), Direction.x)

\* [lo, hi] contains 0 and is the set of the t for which Along(t) lies in the
\* image, and p' is the point of that segment nearest to p
NearestOnSegment(lo, hi) ==
    /\ Leq(lo, Zero) /\ Leq(Zero, hi)
    /\ lo = ValidLow /\ hi = ValidHigh
    /\ \A t \in Samples \cup {lo, hi} :
          (Leq(lo, t) /\ Leq(t, hi)) <=> InBounds(Along(t), image)
    /\ OnLine(o, fitted.pPrime)
    /\ InBounds(fitted.pPrime, image)
    /\ \A t \in Samples \cup {lo, hi} :
          InBounds(Along(t), image) => Leq(Dist2(p, fitted.pPrime), Dist2(p, Along(t)))
    /\ fitted.pPrime \notin {Along(lo), Along(hi)}
          => IsZero(AlongDirection(fitted.pPrime, p))

\* C24: with a fixed aspect and the opposite corner o inside the image, the
\* interval between fitPoint's lower and upper, as its clamp takes it
\* ([min(lower, upper), max(lower, upper)]: the two come in the reverse order
\* for a horizontal or vertical direction that points to the negative side),
\* contains 0 and is exactly the set of parameters t for which
\* o + t * direction lies in [0, width - 1] x [0, height - 1], and p' is the
\* point of that segment nearest to the requested p: the orthogonal projection
\* of p onto the line, clamped to the interval.
C24_NearestOnSegment ==
    (pc = "fittedPoint" /\ aspect.defined /\ InBounds(o, image)) =>
        NearestOnSegment(IntervalLow, IntervalHigh)

\* a corner dragged out of the image along a line that falls to the left (the
\* direction lies in quadrant 2) from an o inside: the projection of p lies
\* beyond the end of the segment and p' is that end, away from o
C24_Witness ==
    /\ pc = "fittedPoint" /\ aspect.defined /\ InBounds(o, image)
    /\ Less(Direction.x, Zero) /\ Less(Zero, Direction.y)
    /\ ~InBounds(p, image)
    /\ Less(IntervalHigh, closest(p, o, Direction))
    /\ fitted.pPrime = Along(IntervalHigh)
    /\ fitted.pPrime # o

\* v brought into [0, dim - 1]
Clamped(v, dim) ==
    IF Less(v, Zero) THEN Zero
    ELSE IF Less(Minus(dim, One), v) THEN Minus(dim, One)
    ELSE v

\* the coordinates of pt in the frame of the crop c without its rotation:
\* pt - centre turned back by the angle of c
LocalIn(c, pt) ==
    Point(Plus(Times(Minus(pt.x, c.x), c.angle.cos), Times(Minus(pt.y, c.y), c.angle.sin)),
          Minus(Times(Minus(pt.y, c.y), c.angle.cos), Times(Minus(pt.x, c.x), c.angle.sin)))

\* C25: with free aspect, fitPoint sets p' to the per-axis clamp of the
\* (possibly step-1-shifted) p into [0, dim - 1], and the returned crop has
\* centre midpoint(p', o), the angle passed in, and p' and the (possibly
\* shifted) o as a pair of diagonally opposite corners of getCorners, its width
\* and height being twice the absolute local coordinates of p' in the crop's
\* unrotated frame.
C25_FreeAspect ==
    (pc = "fittedPoint" /\ ~aspect.defined) =>
        /\ fitted.pPrime = Point(Clamped(fitted.p.x, image.width),
                                 Clamped(fitted.p.y, image.height))
        /\ Times(fitted.crop.x, Two) = Plus(fitted.pPrime.x, fitted.o.x)
        /\ Times(fitted.crop.y, Two) = Plus(fitted.pPrime.y, fitted.o.y)
        /\ fitted.crop.angle = angle
        /\ \E k \in Corners :
              /\ getCorners(fitted.crop)[k] = fitted.pPrime
              /\ getCorners(fitted.crop)[ClaimedOpposite[k]] = fitted.o
        /\ fitted.crop.width = Times(Two, MathAbs(LocalIn(fitted.crop, fitted.pPrime).x))
        /\ fitted.crop.height = Times(Two, MathAbs(LocalIn(fitted.crop, fitted.pPrime).y))

\* a free-aspect fitPoint on a crop turned by atan(4/3): p and o were both off
\* one side and moved together, p was then clamped, and the crop returned has a
\* width and a height that differ
C25_Witness ==
    /\ pc = "fittedPoint" /\ ~aspect.defined
    /\ angle = Rot(Q(3, 5), Q(4, 5))
    /\ fitted.o # o
    /\ fitted.pPrime # fitted.p
    /\ Less(Zero, fitted.crop.width)
    /\ Less(fitted.crop.width, fitted.crop.height)

\* C26: neither fitPoint nor fitCrop ever changes the rotation: the crop
\* fitPoint returns has the angle passed in, and on every path of fitCrop (SCALE
\* with any number of corner fixes, TRANSLATE, and both TRANSLATE-to-SCALE
\* fallbacks) the crop held and returned has the angle of the crop passed in.
C26_AngleKept ==
    /\ pc = "fittedPoint" => fitted.crop.angle = angle
    /\ pc \in {"a", "b", "c", "d", "done"} => cPrime.angle = crop.angle

\* a TRANSLATE call on a crop turned by atan(4/3) has moved it, fallen back to
\* SCALE, passed corners to fitPoint and returned a crop of another size
C26_Witness ==
    /\ pc = "done" /\ transform = TRANSLATE /\ path = "scaleMoved"
    /\ crop.angle = Rot(Q(3, 5), Q(4, 5))
    /\ Len(fixed) >= 2
    /\ cPrime.width # crop.width
    /\ cPrime.x # crop.x

\* C27: the two inside-the-image tests agree on every point: for every point p
\* (integer or fractional coordinates) and image, isWithin(p, image), used by
\* SCALE mode, is true exactly when shiftRequired(p, image) = (0, 0), used by
\* TRANSLATE mode; points with x = 0 or y = 0 and points with
\* width - 1 < x < width are classified the same way by both.
C27_TestsAgree ==
    pc = "shifted" => (isWithin(p, image) <=> shift = NoShift)

\* C28: the crop produced by resetCrop is a fixed point of fitCrop: for every
\* image and aspect setting, all four corners of resetCrop(image, aspect) lie
\* within the image bounds that fitCrop enforces, so
\* fitCrop(resetCrop(image, aspect), image, aspect, mode) returns it unchanged
\* in both TRANSLATE and SCALE mode.
C28_ResetIsFixedPoint ==
    (pc = "done" /\ calls = 1 /\ crop = resetCrop(image, aspect)) =>
        /\ AllCornersIn(crop, image)
        /\ cPrime = crop
        /\ fixed = <<>>

\* C29: before img.onload has run, a drag of the whole crop (onMove), a drag
\* of a corner handle (setPosition) and a change of the rotation prop all leave
\* cropState unchanged; the first change of cropState is onload setting it to
\* resetCrop of the natural size of the image and the aspect.
C29_UnchangedUntilLoaded ==
    [][~loaded => IF loaded'
                  THEN crop' = resetCrop(image', aspect)
                  ELSE crop' = crop /\ crop = mountCrop]_vars

\* the canvas is measured, the image has not loaded, and the component has
\* handled MaxEvents events, a drag of the whole crop last
C29_Witness ==
    /\ ~loaded
    /\ sized
    /\ events = MaxEvents
    /\ last = "onMove"
    /\ crop = mountCrop

\* the width and the height of a level crop in view space, under a transform
\* that neither rotates nor shears
viewSize(c, m) == Point(Times(m.a, c.width), Times(m.d, c.height))

\* C30: after any sequence of drags of the corner handles handled by
\* setPosition on an unrotated crop, the width and the height of the crop in
\* view space are at least MIN_CROP (scaled by the aspect on the longer side),
\* also when the opposite corner is within MIN_CROP of the edge of the image.
C30_NeverCollapses ==
    (pc = "dragged" /\ crop.angle = Upright /\ IsZero(matrix.b) /\ IsZero(matrix.c)) =>
        /\ Leq(minimum(aspect).x, viewSize(crop, matrix).x)
        /\ Leq(minimum(aspect).y, viewSize(crop, matrix).y)

====
